---------------------------- MODULE Spec2Model ----------------------------
(***************************************************************************)
(* Model of the reorg-aware supply aggregator of supply-tracer-parser      *)
(* (src/state.go, second copy of the file, lines 436-864).                 *)
(*                                                                         *)
(* The State struct is the record variable s; supplyInfo records are       *)
(* records with the fields Number, Hash, ParentHash, Delta, Reward,        *)
(* Withdrawals, Burn.  Hashes are small naturals, 0 is common.Hash{}.      *)
(* The operators below thread a context record c that holds the fields of  *)
(* State plus the errors sent on errCh during the call and the outcome of  *)
(* the call (ok, a nil-pointer panic, or recursion fuel exhausted).        *)
(***************************************************************************)
EXTENDS Integers, Sequences, FiniteSets, TLC

VARIABLES
    s,       \* the State struct
    errCh,   \* the errors the last call sent on errCh, in order
    status,  \* "ok", or how the process ended: "panic", "diverged"
    supply,  \* the record passed to the last handleEntry call
    op,      \* the last operation
    first,   \* the record passed to the first handleEntry call
    steps,   \* the number of handleEntry calls made
    mon,     \* monitor of the shape of the feed (see Monitor)
    stateFile,       \* the JSON document in the state file, NoFile when none
    lastParsedFile,  \* the file name LoadState returned to run
    proc     \* the process around the State: goroutines, channels, files

vars == <<s, errCh, status, supply, op, first, steps, mon, stateFile, lastParsedFile, proc>>

(***************************************************************************)
(* Bounds of the model.                                                    *)
(***************************************************************************)
\* number of handleEntry calls explored
MaxSteps == 8
\* history window (1024 in the program, scaled down so that eviction happens)
historyLimit == 4
\* nesting allowed to the mutual recursion rewindTo -> forwardTo -> rewindTo
MaxDepth == 6
\* uint64 arithmetic is modelled modulo UintMod, which exceeds every height
\* the model feeds: 0 - 1 wraps to UintMod - 1 as it wraps to 2^64 - 1 in Go
UintMod == 1024

\* how far past historyLimit the direct addToHistory calls fill the history
MaxOver == 6

ZeroHash == 0

\* no state file on disk
NoFile == <<>>

\* n - 1 that stays at 0 instead of wrapping
DecNoWrap(n) == IF n = 0 THEN 0 ELSE n - 1

Dec(n) == (n + UintMod - 1) % UintMod

(***************************************************************************)
(* NewState                                                                *)
(***************************************************************************)
NewState ==
    [BlockNumber |-> 0, Hash |-> ZeroHash, ParentHash |-> ZeroHash,
     TotalDelta |-> 0, TotalReward |-> 0, TotalWithdrawals |-> 0, TotalBurn |-> 0,
     canonicalChain |-> <<>>,
     HashHistory |-> <<>>]

\* the context a call of handleEntry starts with: state st, nothing sent yet
\* trail is the trace of the call when it is asked for (on): one event for
\* every method that took the exclusive lock, with its argument, and for
\* every send on errCh, with the error
NoTrail == [on |-> FALSE, events |-> <<>>]

Ctx(st) == [st |-> st, errs |-> <<>>, status |-> "ok", trail |-> NoTrail]

\* the context of a call whose events are kept
Traced(st) == [Ctx(st) EXCEPT !.trail.on = TRUE]

\* the trail t after the event kind with the argument arg
note(t, kind, arg) ==
    IF t.on THEN [t EXCEPT !.events = Append(@, [kind |-> kind, arg |-> arg])] ELSE t

emit(c, e) == [c EXCEPT !.errs = Append(@, e), !.trail = note(@, "send", e)]

panic(c) == [c EXCEPT !.status = "panic"]

(***************************************************************************)
(* The ordered map HashHistory: a sequence of pairs [Key, Value] in        *)
(* insertion order, Value a function from hashes to supplyInfo records.    *)
(***************************************************************************)
Keys(h) == {h[i].Key : i \in 1..Len(h)}

IndexOf(h, k) == CHOOSE i \in 1..Len(h) : h[i].Key = k

\* OrderedMap.Set: a new key is appended, an existing key keeps its place
Set(h, k, v) ==
    IF k \in Keys(h)
    THEN [h EXCEPT ![IndexOf(h, k)] = [Key |-> k, Value |-> v]]
    ELSE Append(h, [Key |-> k, Value |-> v])

\* OrderedMap.Delete
Delete(h, k) == SelectSeq(h, LAMBDA p : p.Key # k)

(***************************************************************************)
(* setHead, add, sub                                                       *)
(***************************************************************************)
\* setHead without the update of the canonical index
setHeadNoIndex(c, rec) ==
    [c EXCEPT !.st.BlockNumber = rec.Number,
              !.st.Hash = rec.Hash,
              !.st.ParentHash = rec.ParentHash]

setHead(c, rec) ==
    [c EXCEPT !.st.BlockNumber = rec.Number,
              !.st.Hash = rec.Hash,
              !.st.ParentHash = rec.ParentHash,
              !.st.canonicalChain = (rec.Number :> rec.Hash) @@ @,
              !.trail = note(@, "setHead", rec)]

\* add that forgets the burn total
addDropsBurn(c, rec) ==
    [c EXCEPT !.st.TotalDelta = @ + rec.Delta,
              !.st.TotalReward = @ + rec.Reward,
              !.st.TotalWithdrawals = @ + rec.Withdrawals]

add(c, rec) ==
    [c EXCEPT !.st.TotalDelta = @ + rec.Delta,
              !.st.TotalReward = @ + rec.Reward,
              !.st.TotalWithdrawals = @ + rec.Withdrawals,
              !.st.TotalBurn = @ + rec.Burn,
              !.trail = note(@, "add", rec)]

\* sub that adds the withdrawals instead of subtracting them
subAddsWithdrawals(c, rec) ==
    [c EXCEPT !.st.TotalDelta = @ - rec.Delta,
              !.st.TotalReward = @ - rec.Reward,
              !.st.TotalWithdrawals = @ + rec.Withdrawals,
              !.st.TotalBurn = @ - rec.Burn]

sub(c, rec) ==
    [c EXCEPT !.st.TotalDelta = @ - rec.Delta,
              !.st.TotalReward = @ - rec.Reward,
              !.st.TotalWithdrawals = @ - rec.Withdrawals,
              !.st.TotalBurn = @ - rec.Burn,
              !.trail = note(@, "sub", rec)]

(***************************************************************************)
(* addToHistory, getSupply, getSupplyByHash, cleanHistory                  *)
(***************************************************************************)
\* addToHistory that stores the entry only when its height is new
addToHistoryNewHeightOnly(c, entry) ==
    LET h == c.st.HashHistory
    IN IF entry.Number \in Keys(h)
       THEN c
       ELSE [c EXCEPT !.st.HashHistory = Set(h, entry.Number, (entry.Hash :> entry))]

\* addToHistory that keeps the record a hash already has
addToHistoryKeepsFirst(c, entry) ==
    LET h == c.st.HashHistory
        hashes == IF entry.Number \in Keys(h)
                  THEN h[IndexOf(h, entry.Number)].Value
                  ELSE <<>>
    IN [c EXCEPT !.st.HashHistory = Set(h, entry.Number, hashes @@ (entry.Hash :> entry))]

addToHistory(c, entry) ==
    LET h == c.st.HashHistory
        hashes == IF entry.Number \in Keys(h)
                  THEN h[IndexOf(h, entry.Number)].Value
                  ELSE <<>>
    IN [c EXCEPT !.st.HashHistory = Set(h, entry.Number, (entry.Hash :> entry) @@ hashes),
                 !.trail = note(@, "addToHistory", entry)]

getSupply(st, hash, number) ==
    LET h == st.HashHistory IN
    IF number \in Keys(h) /\ hash \in DOMAIN h[IndexOf(h, number)].Value
    THEN [found |-> TRUE, supply |-> h[IndexOf(h, number)].Value[hash]]
    ELSE [found |-> FALSE]

\* scan from the newest pair to the oldest, the first bucket holding the hash
getSupplyByHash(st, hash) ==
    LET h == st.HashHistory
        hits == {i \in 1..Len(h) : hash \in DOMAIN h[i].Value}
    IN IF hits = {}
       THEN [found |-> FALSE]
       ELSE LET i == CHOOSE j \in hits : \A k \in hits : k <= j
            IN [found |-> TRUE, supply |-> h[i].Value[hash]]

\* the loop of cleanHistory: pair is the index (in the map as it was on
\* entry, orig) of the pair under the cursor, pairToDelete the index of the
\* pair of the previous iteration (0 is nil)
RECURSIVE cleanLoop(_, _, _, _)
cleanLoop(h, orig, pair, pairToDelete) ==
    IF pair > Len(orig) THEN h
    ELSE IF Len(h) <= historyLimit THEN h
    ELSE cleanLoop(IF pairToDelete # 0 THEN Delete(h, orig[pairToDelete].Key) ELSE h,
                   orig, pair + 1, pair)

\* cleanHistory whose loop stops at "Len() < historyLimit"
RECURSIVE cleanLoopStrict(_, _, _, _)
cleanLoopStrict(h, orig, pair, pairToDelete) ==
    IF pair > Len(orig) THEN h
    ELSE IF Len(h) < historyLimit THEN h
    ELSE cleanLoopStrict(IF pairToDelete # 0 THEN Delete(h, orig[pairToDelete].Key) ELSE h,
                         orig, pair + 1, pair)

cleanHistoryStrict(c) ==
    [c EXCEPT !.st.HashHistory = cleanLoopStrict(@, @, 1, 0)]

\* cleanHistory that evicts nothing
cleanHistoryOff(c) == c

cleanHistory(c) ==
    [c EXCEPT !.st.HashHistory = cleanLoop(@, @, 1, 0),
              !.trail = note(@, "cleanHistory", <<>>)]

(***************************************************************************)
(* rewindTo and forwardTo.  d is the recursion fuel left.                  *)
(***************************************************************************)
Newest(h) == h[Len(h)]

Oldest(h) == h[1]

\* the walk of rewindTo with the test "hNumber == number" ahead of setHead:
\* the head stops one block above the target
RECURSIVE rewindWalkStopsEarly(_, _, _)
rewindWalkStopsEarly(c, hNumber, number) ==
    IF ~(hNumber >= number) THEN c
    ELSE IF hNumber \notin DOMAIN c.st.canonicalChain
    THEN emit(c, "MissingCanonical")
    ELSE LET got == getSupply(c.st, c.st.canonicalChain[hNumber], hNumber) IN
         IF ~got.found
         THEN emit(c, "MissingHistory")
         ELSE IF hNumber = number
              THEN c
              ELSE rewindWalkStopsEarly(sub(setHead(c, got.supply), got.supply),
                                        Dec(hNumber), number)

\* the walk of rewindTo, "for hNumber = s.BlockNumber; hNumber >= number; hNumber--"
RECURSIVE rewindWalk(_, _, _)
rewindWalk(c, hNumber, number) ==
    IF ~(hNumber >= number) THEN c
    ELSE IF hNumber \notin DOMAIN c.st.canonicalChain
    THEN emit(c, "MissingCanonical")
    ELSE LET got == getSupply(c.st, c.st.canonicalChain[hNumber], hNumber) IN
         IF ~got.found
         THEN emit(c, "MissingHistory")
         ELSE LET c1 == setHead(c, got.supply) IN
              IF hNumber = number
              THEN c1
              ELSE rewindWalk(sub(c1, got.supply), Dec(hNumber), number)

\* the trace loop of forwardTo over the pairs i, i-1, .., 1 of the history;
\* the result is the forwardedChain, or ok = FALSE with the height where the
\* hash was not found
RECURSIVE forwardTrace(_, _, _, _, _)
forwardTrace(st, number, i, lookupHash, chain) ==
    IF i = 0 THEN [ok |-> TRUE, chain |-> chain]
    ELSE LET hNumber == st.HashHistory[i].Key
             hashes == st.HashHistory[i].Value
         IN IF hNumber > number
            THEN forwardTrace(st, number, i - 1, lookupHash, chain)
            ELSE IF lookupHash \notin DOMAIN hashes
            THEN [ok |-> FALSE, chain |-> chain]
            ELSE IF hNumber < number /\ st.BlockNumber > hNumber
            THEN [ok |-> TRUE, chain |-> chain]
            ELSE forwardTrace(st, number, i - 1, hashes[lookupHash].ParentHash,
                              <<hashes[lookupHash]>> \o chain)

\* the replay loop of forwardTo without the rewind of a head that is at or
\* above the record to replay
RECURSIVE forwardReplayNoRewind(_, _, _, _)
forwardReplayNoRewind(c, chain, i, d) ==
    IF i > Len(chain) THEN c
    ELSE forwardReplayNoRewind(add(setHead(c, chain[i]), chain[i]), chain, i + 1, d)

RECURSIVE rewindTo(_, _, _, _), forwardTo(_, _, _, _), forwardReplay(_, _, _, _)

rewindTo(c, hash, numberHint, d) ==
    IF d = 0 THEN [c EXCEPT !.status = "diverged"]
    ELSE
    LET h == c.st.HashHistory
        lookupSupply == getSupplyByHash(c.st, hash)
    IN
    IF numberHint = 0 /\ ~lookupSupply.found
    THEN emit(c, "RewindHashNotInHistory")
    ELSE IF numberHint # 0 /\ Len(h) = 0
    THEN panic(c)
    ELSE IF numberHint # 0 /\ (Newest(h).Key < numberHint \/ Oldest(h).Key > numberHint)
    THEN emit(c, "RewindNotInHistory")
    ELSE
    LET resolved == IF numberHint = 0 THEN lookupSupply.supply.Number ELSE numberHint
        swap == resolved = c.st.BlockNumber
        forwardToNumber == IF swap THEN resolved ELSE 0
        forwardToHash == IF swap THEN hash ELSE ZeroHash
        number == IF swap THEN Dec(resolved) ELSE resolved
        walked == rewindWalk(c, c.st.BlockNumber, number)
    IN \* the deferred function runs on every return from here on
       IF forwardToNumber > 0 /\ forwardToHash # ZeroHash
       THEN forwardTo(walked, forwardToNumber, forwardToHash, d - 1)
       ELSE walked

\* the replay loop of forwardTo that rewinds onto the record to replay, not
\* onto its parent
RECURSIVE forwardReplayOntoRecord(_, _, _, _)
forwardReplayOntoRecord(c, chain, i, d) ==
    IF i > Len(chain) \/ c.status # "ok" THEN c
    ELSE LET rec == chain[i]
             c1 == IF c.st.BlockNumber >= rec.Number
                   THEN rewindTo(c, rec.Hash, rec.Number, d - 1)
                   ELSE c
         IN IF c1.status # "ok" THEN c1
            ELSE forwardReplayOntoRecord(add(setHead(c1, rec), rec), chain, i + 1, d)

\* the replay loop of forwardTo over forwardedChain[i..]
forwardReplay(c, chain, i, d) ==
    IF i > Len(chain) \/ c.status # "ok" THEN c
    ELSE LET rec == chain[i]
             c1 == IF c.st.BlockNumber >= rec.Number
                   THEN rewindTo(c, rec.ParentHash, Dec(rec.Number), d - 1)
                   ELSE c
         IN IF c1.status # "ok" THEN c1
            ELSE forwardReplay(add(setHead(c1, rec), rec), chain, i + 1, d)

\* forwardTo without the comparison of the head with the target after the
\* replay
forwardToUnchecked(c, number, hash, d) ==
    IF d = 0 THEN [c EXCEPT !.status = "diverged"]
    ELSE
    LET h == c.st.HashHistory IN
    IF Len(h) = 0
    THEN panic(c)
    ELSE IF Newest(h).Key < number \/ Oldest(h).Key >= number
    THEN emit(c, "ForwardNotInHistory")
    ELSE LET tr == forwardTrace(c.st, number, Len(h), hash, <<>>) IN
         IF ~tr.ok
         THEN emit(c, "ParentChainBroken")
         ELSE forwardReplay(c, tr.chain, 1, d)

\* forwardTo whose range check lets the oldest retained height through
forwardToFromOldest(c, number, hash, d) ==
    IF d = 0 THEN [c EXCEPT !.status = "diverged"]
    ELSE
    LET h == c.st.HashHistory IN
    IF Len(h) = 0
    THEN panic(c)
    ELSE IF Newest(h).Key < number \/ Oldest(h).Key > number
    THEN emit(c, "ForwardNotInHistory")
    ELSE LET tr == forwardTrace(c.st, number, Len(h), hash, <<>>) IN
         IF ~tr.ok
         THEN emit(c, "ParentChainBroken")
         ELSE LET c1 == forwardReplay(c, tr.chain, 1, d) IN
              IF c1.status # "ok" THEN c1
              ELSE IF c1.st.BlockNumber # number
              THEN emit(c1, "ForwardIncomplete")
              ELSE c1

forwardTo(c, number, hash, d) ==
    IF d = 0 THEN [c EXCEPT !.status = "diverged"]
    ELSE
    LET h == c.st.HashHistory IN
    IF Len(h) = 0
    THEN panic(c)
    ELSE IF Newest(h).Key < number \/ Oldest(h).Key >= number
    THEN emit(c, "ForwardNotInHistory")
    ELSE LET tr == forwardTrace(c.st, number, Len(h), hash, <<>>) IN
         IF ~tr.ok
         THEN emit(c, "ParentChainBroken")
         ELSE LET c1 == forwardReplay(c, tr.chain, 1, d) IN
              IF c1.status # "ok" THEN c1
              ELSE IF c1.st.BlockNumber # number
              THEN emit(c1, "ForwardIncomplete")
              ELSE c1

(***************************************************************************)
(* handleEntry                                                             *)
(***************************************************************************)
isInitialBlockHandling(st) == st.BlockNumber = 0 /\ st.Hash = ZeroHash

\* the reconciliation without the rewind of a head that is at or above the
\* record
reconcileForwardOnly(c, rec) ==
    IF Dec(rec.Number) > c.st.BlockNumber
    THEN forwardTo(c, Dec(rec.Number), rec.ParentHash, MaxDepth)
    ELSE c

\* the reconciliation step of handleEntry (lines 614-629)
reconcile(c, rec) ==
    IF Dec(rec.Number) > c.st.BlockNumber
    THEN forwardTo(c, Dec(rec.Number), rec.ParentHash, MaxDepth)
    ELSE IF rec.Number <= c.st.BlockNumber \/ rec.ParentHash # c.st.Hash
    THEN rewindTo(c, rec.ParentHash,
                  IF rec.ParentHash # c.st.Hash THEN 0 ELSE Dec(rec.Number),
                  MaxDepth)
    ELSE c

\* the reconciliation step of handleEntry with d nested calls of rewindTo
\* and forwardTo allowed instead of MaxDepth
reconcileWithin(c, rec, d) ==
    IF Dec(rec.Number) > c.st.BlockNumber
    THEN forwardTo(c, Dec(rec.Number), rec.ParentHash, d)
    ELSE IF rec.Number <= c.st.BlockNumber \/ rec.ParentHash # c.st.Hash
    THEN rewindTo(c, rec.ParentHash,
                  IF rec.ParentHash # c.st.Hash THEN 0 ELSE Dec(rec.Number),
                  d)
    ELSE c

\* the update of the state without the insertion into history
applyNoHistory(c, rec) == cleanHistory(add(setHead(c, rec), rec))

\* the update of the state (lines 639-647)
apply(c, rec) == cleanHistory(addToHistory(add(setHead(c, rec), rec), rec))

\* handleEntry whose parent check joins its two tests with "&&"
handleEntryWeakCheck(st, rec) ==
    LET c == Ctx(st) IN
    IF isInitialBlockHandling(st)
    THEN apply(c, rec)
    ELSE LET c1 == reconcile(c, rec) IN
         IF c1.status # "ok" THEN c1
         ELSE IF Dec(rec.Number) # c1.st.BlockNumber /\ rec.ParentHash # c1.st.Hash
         THEN emit(c1, "ParentMismatch")
         ELSE apply(c1, rec)

\* handleEntry that reports the failed parent check and applies the record
handleEntryNoReturn(st, rec) ==
    LET c == Ctx(st) IN
    IF isInitialBlockHandling(st)
    THEN apply(c, rec)
    ELSE LET c1 == reconcile(c, rec) IN
         IF c1.status # "ok" THEN c1
         ELSE IF Dec(rec.Number) # c1.st.BlockNumber \/ rec.ParentHash # c1.st.Hash
         THEN apply(emit(c1, "ParentMismatch"), rec)
         ELSE apply(c1, rec)

\* handleEntry without the test of the initial block handling
handleEntryAlwaysReconciles(st, rec) ==
    LET c1 == reconcile(Ctx(st), rec) IN
    IF c1.status # "ok" THEN c1
    ELSE IF Dec(rec.Number) # c1.st.BlockNumber \/ rec.ParentHash # c1.st.Hash
    THEN emit(c1, "ParentMismatch")
    ELSE apply(c1, rec)

\* handleEntry from the parent check on (lines 631-647), in the context c1
\* the reconciliation left
validated(c1, rec) ==
    IF c1.status # "ok" THEN c1
    ELSE IF Dec(rec.Number) # c1.st.BlockNumber \/ rec.ParentHash # c1.st.Hash
    THEN emit(c1, "ParentMismatch")
    ELSE apply(c1, rec)

\* handleEntry in the context c, which holds the State
handleEntryIn(c, rec) ==
    IF isInitialBlockHandling(c.st)
    THEN apply(c, rec)
    ELSE validated(reconcile(c, rec), rec)

handleEntry(st, rec) == handleEntryIn(Ctx(st), rec)

\* the call handleEntry(rec, errCh) on the State st with its events kept:
\* trail.events are the locked methods it calls and the errors it sends, in
\* order, status is how it ends
handleEntryEvents(st, rec) == handleEntryIn(Traced(st), rec)

\* the State st after the locked method of the event e
performed(st, e) ==
    CASE e.kind = "setHead" -> setHead(Ctx(st), e.arg).st
      [] e.kind = "add" -> add(Ctx(st), e.arg).st
      [] e.kind = "sub" -> sub(Ctx(st), e.arg).st
      [] e.kind = "addToHistory" -> addToHistory(Ctx(st), e.arg).st
      [] e.kind = "cleanHistory" -> cleanHistory(Ctx(st)).st
      [] e.kind = "send" -> st

(***************************************************************************)
(* The records fed to handleEntry.  Every block has its own hash and its   *)
(* own weight w, a power of two, so a sum of effects tells which blocks    *)
(* were summed: Reward = w, Withdrawals = 1, Burn = 2w, Delta = 1 - w.     *)
(***************************************************************************)
Blk(n, h, p, w) ==
    [Number |-> n, Hash |-> h, ParentHash |-> p,
     Delta |-> 1 - w, Reward |-> w, Withdrawals |-> 1, Burn |-> 2 * w]

\* the canonical chain G0 <- A1 <- .. <- A5
ChainA ==
    {Blk(0, 10, ZeroHash, 1), Blk(1, 11, 10, 2), Blk(2, 12, 11, 4),
     Blk(3, 13, 12, 8), Blk(4, 14, 13, 16), Blk(5, 15, 14, 32)}

\* a competing branch A1 <- B2 <- B3 <- B4, a sibling B1 of A1 with a child,
\* and a sibling of A3
ChainB ==
    {Blk(2, 22, 11, 64), Blk(3, 23, 22, 128), Blk(4, 24, 23, 256),
     Blk(1, 21, 10, 512), Blk(2, 25, 21, 1024), Blk(3, 33, 12, 2048)}

\* records that do not extend their parent: a parent hash no block has, and
\* parents that are blocks two heights below
Strays ==
    {Blk(3, 40, 99, 4096), Blk(3, 41, 11, 8192), Blk(2, 42, 10, 16384)}

\* the genesis record of TestHandleEntry, whose hash is common.Hash{0}, and
\* two children of it
ZeroGenesis ==
    {Blk(0, ZeroHash, ZeroHash, 32768), Blk(1, 31, ZeroHash, 65536),
     Blk(1, 32, ZeroHash, 131072)}

Records == ChainA \cup ChainB \cup Strays \cup ZeroGenesis

NoSupply == Blk(0, ZeroHash, ZeroHash, 0)

(***************************************************************************)
(* The process around the State (src/main.go, src/api.go and the log file  *)
(* reader): response is the body the API request got, NoResponse when none *)
(* was made; before is the State as the handleEntry call under way found   *)
(* it.  exit is "running" or the exit status; errors counts the errors     *)
(* waiting in errCh, closed tells that errCh was closed, signal that a     *)
(* signal waits in sigs; api is the state of the API server.  reader is    *)
(* the state of the goroutine of readFileStream: "off" before it starts,   *)
(* "on" in its loop over files, "tailing" in the wait at the end of the    *)
(* growing file, "closed" after close(linesCh); files is the sorted list   *)
(* of log files, file and line the position of the reader in it, linesCh   *)
(* the channel to the consumer.  History of the run, for the properties:   *)
(* sent counts the errors sent on errCh, signalled tells that a signal     *)
(* arrived, lines is all that was sent on linesCh, fed the records passed  *)
(* to handleEntry, broken the files processLogFile left on an error, fatal *)
(* tells that the process ended in a log.Fatal outside the exit goroutine, *)
(* start the State after LoadState, run the number of the                  *)
(* process.  pc is where the consumer goroutine is: "idle" at the receive  *)
(* from linesCh, "handleEntry" inside a call (events are then the locked   *)
(* methods and the sends the call makes, final how it ends, done the       *)
(* number of its events that have happened), "marshalled" in SaveState     *)
(* after json.Marshal (doc is the document), "truncated" after             *)
(* os.WriteFile has opened and truncated the state file.                   *)
(***************************************************************************)
NoResponse == <<>>

NewProcess ==
    [response |-> NoResponse,
     before |-> NewState,
     exit |-> "running",
     errors |-> 0,
     closed |-> FALSE,
     signal |-> FALSE,
     api |-> "starting",
     reader |-> "off",
     files |-> <<>>,
     skipping |-> FALSE,
     file |-> 1,
     line |-> 1,
     linesCh |-> <<>>,
     sent |-> 0,
     signalled |-> FALSE,
     lines |-> <<>>,
     fed |-> <<>>,
     broken |-> {},
     fatal |-> FALSE,
     start |-> NewState,
     run |-> 1,
     pc |-> "idle",
     events |-> <<>>,
     final |-> "ok",
     done |-> 0,
     doc |-> <<>>]

(***************************************************************************)
(* Monitor of the feed.  chain is the chain of blocks the feed describes:  *)
(*   "A"   the records fed so far are a sequential monotone chain r1..rk;  *)
(*   "B"   that chain was followed by a sibling B of its j-th record and   *)
(*         then by records extending B (chain is r1..r(j-1), B, B');       *)
(*   "W"   that chain was followed by one record of height rk.Number + 1   *)
(*         whose parent is the earlier block rj, j < k (chain is r1..rk);  *)
(*   "R"   the "W" feed was followed by a successor of rk (chain is        *)
(*         r1..rk and that successor);                                     *)
(*   "off" any other feed.                                                 *)
(***************************************************************************)
Successor(r, prev) == r.Number = prev.Number + 1 /\ r.ParentHash = prev.Hash

Sibling(r, other) ==
    r.Number = other.Number /\ r.ParentHash = other.ParentHash /\ r.Hash # other.Hash

MonOff == [phase |-> "off", chain |-> <<>>, j |-> 0, k |-> 0]

Monitor(m, r) ==
    LET n == Len(m.chain)
        sibs == {i \in 1..n : Sibling(r, m.chain[i])}
        olds == {i \in 1..(n - 1) : r.ParentHash = m.chain[i].Hash}
    IN IF m.phase \notin {"A", "B", "W"} THEN MonOff
       ELSE IF n = 0 \/ Successor(r, m.chain[n])
       THEN IF m.phase = "W"
            THEN [m EXCEPT !.phase = "R", !.chain = Append(@, r)]
            ELSE [m EXCEPT !.chain = Append(@, r),
                           !.k = IF m.phase = "A" THEN n + 1 ELSE @]
       ELSE IF m.phase = "A" /\ sibs # {}
       THEN LET j == CHOOSE i \in sibs : TRUE
            IN [phase |-> "B", chain |-> Append(SubSeq(m.chain, 1, j - 1), r),
                j |-> j, k |-> n]
       ELSE IF m.phase = "A" /\ r.Number = m.chain[n].Number + 1 /\ olds # {}
       THEN [phase |-> "W", chain |-> m.chain, j |-> CHOOSE i \in olds : TRUE, k |-> n]
       ELSE MonOff

(***************************************************************************)
(* The state machine: a fresh aggregator fed any sequence of records.      *)
(***************************************************************************)
Init ==
    /\ s = NewState
    /\ errCh = <<>>
    /\ status = "ok"
    /\ supply = NoSupply
    /\ op = "NewState"
    /\ first = NoSupply
    /\ steps = 0
    /\ mon = [phase |-> "A", chain |-> <<>>, j |-> 0, k |-> 0]
    /\ stateFile = NoFile
    /\ lastParsedFile = <<>>
    /\ proc = NewProcess

HandleEntry(rec) ==
    /\ status = "ok"
    /\ steps < MaxSteps
    /\ LET c == handleEntry(s, rec) IN
        /\ s' = c.st
        /\ errCh' = c.errs
        /\ status' = c.status
    /\ supply' = rec
    /\ op' = "handleEntry"
    /\ first' = IF steps = 0 THEN rec ELSE first
    /\ steps' = steps + 1
    /\ mon' = Monitor(mon, rec)
    /\ UNCHANGED <<stateFile, lastParsedFile, proc>>

Next == \E rec \in Records : HandleEntry(rec)

Spec == Init /\ [][Next]_vars

(***************************************************************************)
(* The history on its own, driven as TestAddToHistory and TestCleanHistory *)
(* drive it: addToHistory called directly on a fresh State, up to MaxOver  *)
(* heights more than historyLimit, then cleanHistory.  A new height is     *)
(* right above or right below the heights present, so that insertion order *)
(* and numeric order differ; once (steps counts it) a height already       *)
(* present is inserted again, under the hash it holds or under another,    *)
(* with the record it holds or with another record of that hash.           *)
(***************************************************************************)
HistoryRecord(n, alt) == Blk(n, 100 + 2 * n + alt, 99, 1 + alt)

\* another record with the height and the hash of HistoryRecord(n, 0)
HistoryRewrite(n) == Blk(n, 100 + 2 * n, 98, 4)

\* the records handleEntry is fed next to the direct calls: the canonical
\* chain and the competing branches, six heights for a history of
\* historyLimit
HistoryFeed == ChainA \cup ChainB

NewHeights(h) ==
    IF Len(h) = 0 THEN {0, 3}
    ELSE LET top == CHOOSE k \in Keys(h) : \A x \in Keys(h) : x <= k
             low == CHOOSE k \in Keys(h) : \A x \in Keys(h) : x >= k
         IN {top + 1} \cup (IF low > 0 THEN {low - 1} ELSE {})

AddToHistory(rec) ==
    /\ status = "ok"
    /\ op \in {"NewState", "addToHistory"}
    /\ \/ /\ rec.Number \in NewHeights(s.HashHistory)
          /\ rec.Hash = HistoryRecord(rec.Number, 0).Hash
          /\ Len(s.HashHistory) < historyLimit + MaxOver
          /\ steps' = steps
       \/ /\ rec.Number \in Keys(s.HashHistory)
          /\ steps = 0
          /\ steps' = 1
    /\ s' = addToHistory(Ctx(s), rec).st
    /\ op' = "addToHistory"
    /\ supply' = rec
    /\ UNCHANGED <<errCh, status, first, mon, stateFile, lastParsedFile, proc>>

CleanHistory ==
    /\ status = "ok"
    /\ op \in {"NewState", "addToHistory"}
    /\ s' = cleanHistory(Ctx(s)).st
    /\ op' = "cleanHistory"
    /\ mon' = [phase |-> "clean", chain |-> <<>>,
               j |-> Len(s.HashHistory), k |-> Len(s'.HashHistory)]
    /\ UNCHANGED <<errCh, status, supply, first, steps, stateFile, lastParsedFile, proc>>

NextHistory ==
    \/ \E n \in 0..(historyLimit + MaxOver + 3) : \E alt \in 0..1 :
          AddToHistory(HistoryRecord(n, alt))
    \/ \E n \in 0..(historyLimit + MaxOver + 3) :
          n \in Keys(s.HashHistory) /\ AddToHistory(HistoryRewrite(n))
    \/ CleanHistory
    \/ \E rec \in HistoryFeed : op \in {"NewState", "handleEntry"} /\ HandleEntry(rec)

SpecHistory == Init /\ [][NextHistory]_vars

(***************************************************************************)
(* SaveState and LoadState.  The state file holds the JSON object          *)
(* json.Marshal makes of a PersistedState; it is modelled as a record of   *)
(* the texts of its members, a text being a sequence of characters.        *)
(* A uint64 and a *big.Int are written in decimal, a common.Hash as "0x"   *)
(* and the 64 hex digits of its 32 bytes, a string between quotes with     *)
(* the escapes of encoding/json.                                           *)
(***************************************************************************)
HexChars == <<"0", "1", "2", "3", "4", "5", "6", "7", "8", "9", "a", "b", "c", "d", "e", "f">>

CharValue(ch) == (CHOOSE i \in 1..16 : HexChars[i] = ch) - 1

RECURSIVE FormatUint(_)
FormatUint(n) ==
    IF n < 10 THEN <<HexChars[n + 1]>>
    ELSE Append(FormatUint(n \div 10), HexChars[(n % 10) + 1])

FormatInt(n) == IF n < 0 THEN <<"-">> \o FormatUint(0 - n) ELSE FormatUint(n)

RECURSIVE ParseUint(_, _)
ParseUint(txt, acc) ==
    IF txt = <<>> THEN acc
    ELSE ParseUint(Tail(txt), 10 * acc + CharValue(Head(txt)))

ParseInt(txt) ==
    IF Head(txt) = "-" THEN 0 - ParseUint(Tail(txt), 0) ELSE ParseUint(txt, 0)

\* common.Hash{h}: the byte h followed by 31 zero bytes
HashBytes(h) == [i \in 1..32 |-> IF i = 1 THEN h ELSE 0]

RECURSIVE HexOf(_, _)
HexOf(bytes, i) ==
    IF i > Len(bytes) THEN <<>>
    ELSE <<HexChars[(bytes[i] \div 16) + 1], HexChars[(bytes[i] % 16) + 1]>>
             \o HexOf(bytes, i + 1)

EncodeHash(h) == <<"0", "x">> \o HexOf(HashBytes(h), 1)

DecodeHash(txt) ==
    LET bytes == [i \in 1..32 |->
                    16 * CharValue(txt[2 * i + 1]) + CharValue(txt[2 * i + 2])]
    IN CHOOSE h \in 0..255 : HashBytes(h) = bytes

\* a string of encoding/json: quotes around it, a backslash before a quote
\* and a backslash, "<" written \u003c
RECURSIVE EscapeChars(_)
EscapeChars(str) ==
    IF str = <<>> THEN <<>>
    ELSE LET ch == Head(str)
             out == IF ch = "\"" THEN <<"\\", "\"">>
                    ELSE IF ch = "\\" THEN <<"\\", "\\">>
                    ELSE IF ch = "<" THEN <<"\\", "u", "0", "0", "3", "c">>
                    ELSE <<ch>>
         IN out \o EscapeChars(Tail(str))

EncodeString(str) == <<"\"">> \o EscapeChars(str) \o <<"\"">>

RECURSIVE UnescapeChars(_)
UnescapeChars(txt) ==
    IF txt = <<>> THEN <<>>
    ELSE IF Head(txt) # "\\" THEN <<Head(txt)>> \o UnescapeChars(Tail(txt))
    ELSE IF txt[2] = "u"
    THEN <<(IF SubSeq(txt, 3, 6) = <<"0", "0", "3", "c">> THEN "<" ELSE "?")>>
             \o UnescapeChars(SubSeq(txt, 7, Len(txt)))
    ELSE <<txt[2]>> \o UnescapeChars(SubSeq(txt, 3, Len(txt)))

DecodeString(txt) == UnescapeChars(SubSeq(txt, 2, Len(txt) - 1))

\* json.Marshal(data) of SaveState, data filled from the state
Marshal(st, lastParsedFilename) ==
    [blockNumber |-> FormatUint(st.BlockNumber),
     hash |-> EncodeHash(st.Hash),
     parentHash |-> EncodeHash(st.ParentHash),
     totalDelta |-> FormatInt(st.TotalDelta),
     totalReward |-> FormatInt(st.TotalReward),
     totalWithdrawals |-> FormatInt(st.TotalWithdrawals),
     totalBurn |-> FormatInt(st.TotalBurn),
     file |-> EncodeString(lastParsedFilename)]

\* json.Unmarshal(bytes, &persistedState)
Unmarshal(doc) ==
    [BlockNumber |-> ParseUint(doc.blockNumber, 0),
     Hash |-> DecodeHash(doc.hash),
     ParentHash |-> DecodeHash(doc.parentHash),
     TotalDelta |-> ParseInt(doc.totalDelta),
     TotalReward |-> ParseInt(doc.totalReward),
     TotalWithdrawals |-> ParseInt(doc.totalWithdrawals),
     TotalBurn |-> ParseInt(doc.totalBurn),
     File |-> DecodeString(doc.file)]

\* the document SaveState writes
SaveState(st, lastParsedFilename) == Marshal(st, lastParsedFilename)

\* a state file that was opened and truncated by os.WriteFile and not yet
\* written: json.Unmarshal fails on it
EmptyFile == [truncated |-> TRUE]

\* LoadState that leaves the parent hash of the head as it was
LoadStateNoParent(st, doc) ==
    IF doc = NoFile \/ doc = EmptyFile
    THEN [st |-> st, lastFile |-> <<>>, err |-> TRUE]
    ELSE LET persistedState == Unmarshal(doc) IN
         [st |-> [st EXCEPT !.BlockNumber = persistedState.BlockNumber,
                            !.Hash = persistedState.Hash,
                            !.TotalDelta = persistedState.TotalDelta,
                            !.TotalReward = persistedState.TotalReward,
                            !.TotalWithdrawals = persistedState.TotalWithdrawals,
                            !.TotalBurn = persistedState.TotalBurn],
          lastFile |-> persistedState.File,
          err |-> FALSE]

\* LoadState on the State st: the state it leaves, the file name and whether
\* an error is returned
LoadState(st, doc) ==
    IF doc = NoFile \/ doc = EmptyFile
    THEN [st |-> st, lastFile |-> <<>>, err |-> TRUE]
    ELSE LET persistedState == Unmarshal(doc) IN
         [st |-> [st EXCEPT !.BlockNumber = persistedState.BlockNumber,
                            !.Hash = persistedState.Hash,
                            !.ParentHash = persistedState.ParentHash,
                            !.TotalDelta = persistedState.TotalDelta,
                            !.TotalReward = persistedState.TotalReward,
                            !.TotalWithdrawals = persistedState.TotalWithdrawals,
                            !.TotalBurn = persistedState.TotalBurn],
          lastFile |-> persistedState.File,
          err |-> FALSE]

(***************************************************************************)
(* The process across a restart: records are fed, the state is saved when  *)
(* a rotated file has been read to its end (mon.j is then the index of     *)
(* its name in FileNames), and a new process (run) makes a fresh State and *)
(* loads the state file into it; one save and one restart in a behaviour.  *)
(***************************************************************************)
FileNames == << <<"s", ".", "1">>, <<"s", "<", "\"", "2">>, <<"s", "\\", "u", "3">> >>

\* number of handleEntry calls explored across the restart
MaxCheckpoint == 4

CheckpointRecords == ChainA \cup {Blk(2, 22, 11, 64), Blk(3, 33, 12, 2048), Blk(3, 41, 11, 8192)}

SaveStateCall(i) ==
    /\ status = "ok"
    /\ op \in {"NewState", "handleEntry"}
    /\ stateFile = NoFile
    /\ stateFile' = SaveState(s, FileNames[i])
    /\ op' = "SaveState"
    /\ mon' = [phase |-> "saved", chain |-> <<>>, j |-> i, k |-> 0]
    /\ UNCHANGED <<s, errCh, status, supply, first, steps, lastParsedFile, proc>>

Run ==
    /\ op \in {"SaveState", "handleEntry"}
    /\ stateFile # NoFile
    /\ lastParsedFile = <<>>
    /\ LET loaded == LoadState(NewState, stateFile) IN
        /\ s' = loaded.st
        /\ lastParsedFile' = loaded.lastFile
    /\ errCh' = <<>>
    /\ status' = "ok"
    /\ op' = "LoadState"
    /\ mon' = [mon EXCEPT !.phase = IF op = "SaveState" THEN "loaded" ELSE "off"]
    /\ UNCHANGED <<supply, first, steps, stateFile, proc>>

NextCheckpoint ==
    \/ \E rec \in CheckpointRecords : steps < MaxCheckpoint /\ HandleEntry(rec)
    \/ \E i \in 1..Len(FileNames) : SaveStateCall(i)
    \/ Run

SpecCheckpoint == Init /\ [][NextCheckpoint]_vars

(***************************************************************************)
(* rewindTo and forwardTo called directly, as TestRewindTo,                *)
(* TestRewindToSameNumber and TestForwardTo call them, on the states a     *)
(* feed of at most MaxDirect records of the two branches builds.  The      *)
(* arguments of the call are kept in mon: j is the number, k the hash.     *)
(***************************************************************************)
MaxDirect == 8

DirectRecords ==
    {b \in ChainA : b.Number <= 4}
        \cup {Blk(1, 21, 10, 512), Blk(2, 25, 21, 1024), Blk(2, 22, 11, 64)}

\* the hashes and the heights the calls are made with: the hash of a block
\* history holds, as in the tests, and any height of the feed
CallHashes == {b.Hash : b \in DirectRecords}

Held(st, hash) == getSupplyByHash(st, hash).found

CallNumbers == {b.Number : b \in DirectRecords}

RewindTo(hash, numberHint) ==
    /\ status = "ok"
    /\ op = "handleEntry"
    /\ Held(s, hash)
    /\ LET c == rewindTo(Ctx(s), hash, numberHint, MaxDepth) IN
        /\ s' = c.st
        /\ errCh' = c.errs
        /\ status' = c.status
    /\ op' = "rewindTo"
    /\ mon' = [phase |-> "call", chain |-> <<>>, j |-> numberHint, k |-> hash]
    /\ UNCHANGED <<supply, first, steps, stateFile, lastParsedFile, proc>>

ForwardTo(number, hash) ==
    /\ status = "ok"
    /\ op = "handleEntry"
    /\ Held(s, hash)
    /\ LET c == forwardTo(Ctx(s), number, hash, MaxDepth) IN
        /\ s' = c.st
        /\ errCh' = c.errs
        /\ status' = c.status
    /\ op' = "forwardTo"
    /\ mon' = [phase |-> "call", chain |-> <<>>, j |-> number, k |-> hash]
    /\ UNCHANGED <<supply, first, steps, stateFile, lastParsedFile, proc>>

NextDirect ==
    \/ \E rec \in DirectRecords :
          op \in {"NewState", "handleEntry"} /\ steps < MaxDirect /\ HandleEntry(rec)
    \/ \E hash \in CallHashes : \E number \in CallNumbers : RewindTo(hash, number)
    \/ \E hash \in CallHashes : \E number \in CallNumbers : ForwardTo(number, hash)

SpecDirect == Init /\ [][NextDirect]_vars

(***************************************************************************)
(* Vocabulary of the properties.                                           *)
(***************************************************************************)
Totals(st) == <<st.TotalDelta, st.TotalReward, st.TotalWithdrawals, st.TotalBurn>>

Effect(r) == <<r.Delta, r.Reward, r.Withdrawals, r.Burn>>

Plus(a, b) == [i \in 1..4 |-> a[i] + b[i]]

Minus(a, b) == [i \in 1..4 |-> a[i] - b[i]]

Zero4 == <<0, 0, 0, 0>>

RECURSIVE SumSeq(_)
SumSeq(q) == IF q = <<>> THEN Zero4 ELSE Plus(Effect(Head(q)), SumSeq(Tail(q)))

Head3(st) == <<st.BlockNumber, st.Hash, st.ParentHash>>

Id3(r) == <<r.Number, r.Hash, r.ParentHash>>

\* the last call was a handleEntry that applied its record
Applied == op = "handleEntry" /\ status = "ok" /\ Head3(s) = Id3(supply)
           /\ \A i \in 1..Len(errCh) : errCh[i] # "ParentMismatch"

\* the block of the feed with hash h (hashes are distinct in Records)
HasBlock(h) == \E b \in Records : b.Hash = h

BlockOf(h) == CHOOSE b \in Records : b.Hash = h

\* the sum of effects along the parent links from the block with hash h back
\* to the block with hash stop, n bounds the length of the walk
RECURSIVE ChainSum(_, _, _)
ChainSum(h, stop, n) ==
    IF ~HasBlock(h) \/ n = 0 THEN Zero4
    ELSE IF h = stop THEN Effect(BlockOf(h))
    ELSE Plus(Effect(BlockOf(h)), ChainSum(BlockOf(h).ParentHash, stop, n - 1))

\* the parent links from h lead to stop
RECURSIVE Descends(_, _, _)
Descends(h, stop, n) ==
    /\ HasBlock(h) /\ n > 0
    /\ \/ h = stop
       \/ Descends(BlockOf(h).ParentHash, stop, n - 1)

MaxChain == 8

\* C1: after every call that applied its record, totals are the sum of the
\* effects of the blocks on the parent-linked chain from the head back to the
\* first ingested block (feeds of distinct non-zero hashes).
C1_TotalsFollowParentLinks ==
    (Applied /\ first.Hash # ZeroHash /\ Descends(s.Hash, first.Hash, MaxChain))
        => Totals(s) = ChainSum(s.Hash, first.Hash, MaxChain)

\* every applied head descends from the first ingested block
C1_HeadDescends ==
    (Applied /\ first.Hash # ZeroHash) => Descends(s.Hash, first.Hash, MaxChain)

\* C2: while the feed is a sequential monotone chain r1..rn, no call sends an
\* error, the head is rn and totals are the sum of the effects of r1..rn.
C2_SequentialIsPureSum ==
    (mon.phase = "A" /\ mon.chain # <<>>)
        => /\ errCh = <<>>
           /\ status = "ok"
           /\ Head3(s) = Id3(mon.chain[Len(mon.chain)])
           /\ Totals(s) = SumSeq(mon.chain)

\* a sequential chain longer than the history window has been ingested
C2_Witness ==
    /\ mon.phase = "A"
    /\ Len(mon.chain) > historyLimit
    /\ Totals(s) = SumSeq(mon.chain)

\* the feed was a chain r1..rk within the history window, then a sibling B of
\* rj, then a chain extending B
ReorgFeed == mon.phase = "B" /\ mon.k <= historyLimit

ReorgOutcome ==
    /\ Head3(s) = Id3(mon.chain[Len(mon.chain)])
    /\ Totals(s) = SumSeq(mon.chain)

\* C3 as stated: rewind-replay for every j in 1..k.
C3_RewindReplayAnyJ == ReorgFeed => ReorgOutcome

\* C3 amended: rewind-replay for every j in 2..k, that is when the parent of
\* the sibling B is a block of the ingested chain.
C3_RewindReplay == (ReorgFeed /\ mon.j >= 2) => ReorgOutcome

\* a reorg of depth two followed by two blocks of the new branch
C3_Witness ==
    /\ ReorgFeed /\ mon.j >= 2 /\ mon.k >= mon.j + 1
    /\ Len(mon.chain) >= mon.j + 2
    /\ ReorgOutcome

Tracking(st) == ~isInitialBlockHandling(st)

Sent(e) == \E i \in 1..Len(errCh) : errCh[i] = e

\* the record history holds for the head
HeadRecord(st) == getSupply(st, st.Hash, st.BlockNumber)

\* a handleEntry step whose record has the height and the parent of the head
\* and another hash
HeadReplacement ==
    /\ op' = "handleEntry"
    /\ Tracking(s)
    /\ supply'.Number = s.BlockNumber
    /\ supply'.Hash # s.Hash
    /\ supply'.ParentHash = s.ParentHash

Replaced ==
    /\ errCh' = <<>>
    /\ Head3(s') = Id3(supply')
    /\ HeadRecord(s).found
    /\ Totals(s') = Plus(Minus(Totals(s), Effect(HeadRecord(s).supply)), Effect(supply'))

\* the parent of the head is the canonical block one height below the head
\* and history holds it
ParentRetained(st) ==
    /\ st.BlockNumber > 0
    /\ Dec(st.BlockNumber) \in DOMAIN st.canonicalChain
    /\ st.canonicalChain[Dec(st.BlockNumber)] = st.ParentHash
    /\ getSupply(st, st.ParentHash, Dec(st.BlockNumber)).found

\* C4 as stated: a head replacement succeeds whenever the head exists.
C4_HeadReplacementAlways == [][HeadReplacement => Replaced]_vars

\* C4 amended: a head replacement succeeds when the parent of the head is
\* still in history and is the canonical block at its height.
C4_HeadReplacement == [][(HeadReplacement /\ ParentRetained(s)) => Replaced]_vars

\* the head was just replaced by its sibling
C4_Witness ==
    /\ mon.phase = "B" /\ mon.j = mon.k /\ Len(mon.chain) = mon.j /\ mon.j >= 2
    /\ Applied /\ errCh = <<>>
    /\ Cardinality(DOMAIN s.HashHistory[IndexOf(s.HashHistory, s.BlockNumber)].Value) = 2

\* the record the canonical index selects at height n: the one history
\* holds, or the block of that hash when the height was evicted
CanonRecord(st, n) ==
    LET got == getSupply(st, st.canonicalChain[n], n)
    IN IF got.found THEN got.supply ELSE BlockOf(st.canonicalChain[n])

RECURSIVE SumOver(_, _)
SumOver(st, ns) ==
    IF ns = {} THEN Zero4
    ELSE LET n == CHOOSE x \in ns : TRUE
         IN Plus(Effect(CanonRecord(st, n)), SumOver(st, ns \ {n}))

CanonSum(st) == SumOver(st, {n \in DOMAIN st.canonicalChain : n <= st.BlockNumber})

\* C5: after every call that sent no error, totals are the sum of the
\* records the canonical index selects at the heights up to the head.
C5_TotalsMatchCanonicalIndex ==
    (op = "handleEntry" /\ status = "ok" /\ errCh = <<>>) => Totals(s) = CanonSum(s)

\* C6: after every call, a head that is not the uninitialised configuration
\* is the block the canonical index holds at its height.
C6_HeadIsCanonical ==
    (op = "handleEntry" /\ Tracking(s))
        => /\ s.BlockNumber \in DOMAIN s.canonicalChain
           /\ s.canonicalChain[s.BlockNumber] = s.Hash

\* a call rewound the head below the newest height of history
C6_Witness ==
    /\ op = "handleEntry" /\ Tracking(s)
    /\ Sent("ParentMismatch")
    /\ s.BlockNumber < Newest(s.HashHistory).Key
    /\ Head3(s) # Id3(supply)

\* C7: after every call that applied its record, history holds the block of
\* every canonical entry at a retained height up to the head.
C7_CanonicalInHistory ==
    Applied =>
        \A n \in DOMAIN s.canonicalChain :
            (n <= s.BlockNumber /\ n \in Keys(s.HashHistory))
                => getSupply(s, s.canonicalChain[n], n).found

\* a record was applied after an eviction, at a height with two blocks
C7_Witness ==
    /\ Applied
    /\ \E n \in DOMAIN s.canonicalChain : n \notin Keys(s.HashHistory)
    /\ \E i \in 1..Len(s.HashHistory) :
          /\ s.HashHistory[i].Key <= s.BlockNumber
          /\ Cardinality(DOMAIN s.HashHistory[i].Value) >= 2

\* a record whose parent is neither the head nor any record of history
Orphan(st, r) ==
    /\ Tracking(st)
    /\ r.ParentHash # st.Hash
    /\ ~getSupplyByHash(st, r.ParentHash).found

\* C9: such a record is rejected with ParentMismatch and changes nothing,
\* and the valid successor of the head fed next is applied.
C9_OrphanRejected ==
    [][/\ (op' = "handleEntry" /\ Orphan(s, supply'))
            => (Sent("ParentMismatch")' /\ s' = s /\ status' = "ok")
       /\ (/\ op = "handleEntry" /\ Sent("ParentMismatch") /\ Orphan(s, supply)
           /\ op' = "handleEntry"
           /\ supply'.Number = s.BlockNumber + 1 /\ supply'.ParentHash = s.Hash)
            => (/\ errCh' = <<>>
                /\ Head3(s') = Id3(supply')
                /\ Totals(s') = Plus(Totals(s), Effect(supply')))]_vars

\* an orphan was just rejected on top of a head that has history
C9_Witness ==
    /\ op = "handleEntry" /\ Sent("ParentMismatch") /\ Orphan(s, supply)
    /\ steps >= 3 /\ Len(s.HashHistory) >= 2

\* C10: after a chain r0..rk, a record of height k+1 whose parent is an
\* earlier block rj is rejected with ParentMismatch, and the successor of rk
\* fed next is applied without error with totals the sum of r0..rk and it.
C10_MismatchThenRecovery ==
    /\ (mon.phase = "W") => Sent("ParentMismatch")
    /\ (mon.phase = "R")
        => /\ errCh = <<>>
           /\ Head3(s) = Id3(mon.chain[Len(mon.chain)])
           /\ Totals(s) = SumSeq(mon.chain)

\* the last n pairs of the ordered map h, all of it when it has no more
LastPairs(h, n) == IF Len(h) <= n THEN h ELSE SubSeq(h, Len(h) - n + 1, Len(h))

\* C8: after every handleEntry call history has at most historyLimit heights;
\* cleanHistory leaves the historyLimit heights inserted last, in their
\* order, whatever the length it starts from, and nothing else changes; it
\* removes nothing from a history of at most historyLimit heights.
C8_HistoryBound ==
    [][/\ (op' = "handleEntry") => Len(s'.HashHistory) <= historyLimit
       /\ (op' = "cleanHistory")
            => /\ s'.HashHistory = LastPairs(s.HashHistory, historyLimit)
               /\ s' = [s EXCEPT !.HashHistory = s'.HashHistory]]_vars

\* cleanHistory cut a history of historyLimit + MaxOver heights, inserted out
\* of numeric order, down to historyLimit
C8_Witness ==
    /\ op = "cleanHistory"
    /\ mon.phase = "clean" /\ mon.j = historyLimit + MaxOver /\ mon.k = historyLimit
    /\ Len(s.HashHistory) = historyLimit
    /\ \E i \in 1..(Len(s.HashHistory) - 1) :
          s.HashHistory[i].Key > s.HashHistory[i + 1].Key

\* history holds the record r under its height and hash
Stored(st, r) == getSupply(st, r.Hash, r.Number).found

\* C11: a call that reports ParentMismatch for record r does not apply r: the
\* state it leaves is the state reconciliation left, history is as it was
\* before the call (r not inserted, nothing evicted), the canonical index
\* holds r.Hash at r.Number only if it did before, and a record that history
\* does not hold is not the head.
C11_MismatchNotApplied ==
    [][(op' = "handleEntry" /\ Sent("ParentMismatch")')
        => /\ s' = reconcile(Ctx(s), supply').st
           /\ s'.HashHistory = s.HashHistory
           /\ (/\ supply'.Number \in DOMAIN s'.canonicalChain
               /\ s'.canonicalChain[supply'.Number] = supply'.Hash)
                => (/\ supply'.Number \in DOMAIN s.canonicalChain
                    /\ s.canonicalChain[supply'.Number] = supply'.Hash)
           /\ ~Stored(s, supply') => Head3(s') # Id3(supply')]_vars

\* a record history does not hold was rejected after the reconciliation had
\* rewound the head below the newest height of history
C11_Witness ==
    /\ op = "handleEntry" /\ Sent("ParentMismatch")
    /\ ~Stored(s, supply)
    /\ s.BlockNumber < Newest(s.HashHistory).Key
    /\ Len(s.HashHistory) = historyLimit

\* the state the reconciliation of handleEntry leaves (none when the state is
\* the uninitialised configuration)
Reconciled(st, r) == IF isInitialBlockHandling(st) THEN st ELSE reconcile(Ctx(st), r).st

\* C12: a call that passes the parent check ends with its record r as head,
\* r.Hash in the canonical index at r.Number, r in history under its height
\* and hash, every total equal to its value after reconciliation plus the
\* component of r, and at most historyLimit heights in history.
C12_SuccessfulIngest ==
    [][(op' = "handleEntry" /\ status' = "ok" /\ ~Sent("ParentMismatch")')
        => /\ Head3(s') = Id3(supply')
           /\ supply'.Number \in DOMAIN s'.canonicalChain
           /\ s'.canonicalChain[supply'.Number] = supply'.Hash
           /\ Stored(s', supply')
           /\ getSupply(s', supply'.Hash, supply'.Number).supply = supply'
           /\ Totals(s') = Plus(Totals(Reconciled(s, supply')), Effect(supply'))
           /\ Len(s'.HashHistory) <= historyLimit]_vars

\* a record was applied below the newest height of history, after a rewind,
\* in a history that has evicted a canonical height
C12_Witness ==
    /\ Applied /\ errCh = <<>>
    /\ s.BlockNumber < Newest(s.HashHistory).Key
    /\ Len(s.HashHistory) = historyLimit
    /\ \E n \in DOMAIN s.canonicalChain : n \notin Keys(s.HashHistory)

\* one of the three "is not in history" errors of rewindTo and forwardTo
NotInHistory ==
    Sent("RewindHashNotInHistory") \/ Sent("RewindNotInHistory") \/ Sent("ForwardNotInHistory")

\* the heights of the last n records of the chain q
LastHeights(q, n) == {q[i].Number : i \in {j \in 1..Len(q) : j > Len(q) - n}}

\* the record r names as its parent a block of the chain q that is not among
\* the last n
ParentEvicted(q, n, r) == \E i \in 1..(Len(q) - n) : r.ParentHash = q[i].Hash

\* C13: after a sequential monotone feed of more than historyLimit records
\* history holds exactly the historyLimit highest heights while the canonical
\* index keeps the evicted ones; a record whose parent is a block at an
\* evicted height is then refused with a not-in-history error, is not
\* applied, and the call leaves the state as it was.
C13_EvictionBoundsReorgs ==
    [][/\ (op' = "handleEntry" /\ mon'.phase = "A" /\ Len(mon'.chain) > historyLimit)
            => /\ Len(s'.HashHistory) = historyLimit
               /\ Keys(s'.HashHistory) = LastHeights(mon'.chain, historyLimit)
               /\ \A i \in 1..Len(mon'.chain) :
                     /\ mon'.chain[i].Number \in DOMAIN s'.canonicalChain
                     /\ s'.canonicalChain[mon'.chain[i].Number] = mon'.chain[i].Hash
       /\ (/\ op' = "handleEntry" /\ mon.phase = "A" /\ Len(mon.chain) > historyLimit
           /\ ParentEvicted(mon.chain, historyLimit, supply'))
            => /\ NotInHistory'
               /\ Sent("ParentMismatch")'
               /\ s' = s]_vars

\* a record whose parent is the canonical block of an evicted height was
\* just refused
C13_Witness ==
    /\ op = "handleEntry" /\ NotInHistory /\ Sent("ParentMismatch")
    /\ Len(s.HashHistory) = historyLimit
    /\ s.BlockNumber = Newest(s.HashHistory).Key
    /\ \E n \in DOMAIN s.canonicalChain :
          /\ n \notin Keys(s.HashHistory)
          /\ s.canonicalChain[n] = supply.ParentHash
    /\ mon.phase \in {"B", "W"}

\* the canonical index and history are populated for the heights lo..hi
Populated(st, lo, hi) ==
    \A n \in lo..hi :
        /\ n \in DOMAIN st.canonicalChain
        /\ getSupply(st, st.canonicalChain[n], n).found

\* the sum of the effects of the canonical records at the heights lo..hi
CanonRange(st, lo, hi) == SumOver(st, {n \in DOMAIN st.canonicalChain : lo <= n /\ n <= hi})

\* a direct call rewindTo(canonical[n], n) below the head, the canonical
\* index and history populated from n to the head
RewindBelowHead ==
    /\ op' = "rewindTo"
    /\ mon'.j < s.BlockNumber
    /\ Populated(s, mon'.j, s.BlockNumber)
    /\ mon'.k = s.canonicalChain[mon'.j]

\* C14: such a call sends no error, leaves as head the canonical record at
\* height n, and takes from every total the components of the canonical
\* records at the heights n+1 up to the old head, not the one at height n.
C14_RewindToLowerHeight ==
    [][RewindBelowHead
        => /\ errCh' = <<>>
           /\ status' = "ok"
           /\ Head3(s') = Id3(CanonRecord(s, mon'.j))
           /\ Totals(s') = Minus(Totals(s), CanonRange(s, mon'.j + 1, s.BlockNumber))]_vars

\* a direct call rewound the head by two heights or more
C14_Witness ==
    /\ op = "rewindTo" /\ errCh = <<>>
    /\ s.BlockNumber = mon.j /\ s.Hash = mon.k
    /\ mon.j + 2 <= Newest(s.HashHistory).Key
    /\ mon.j > Oldest(s.HashHistory).Key

\* a direct call rewindTo(h', n) where n is the height of the head, h' the hash
\* of another block history holds at n with the parent of the head, and the
\* oldest height of history is below n
SameHeightSwap ==
    /\ op' = "rewindTo"
    /\ mon'.j = s.BlockNumber
    /\ mon'.k # s.Hash
    /\ HeadRecord(s).found
    /\ getSupply(s, mon'.k, s.BlockNumber).found
    /\ getSupply(s, mon'.k, s.BlockNumber).supply.ParentHash = s.ParentHash
    /\ Oldest(s.HashHistory).Key < s.BlockNumber

\* C15: such a call sends no error and ends with the competing record as
\* head and every total equal to its previous value minus the component of
\* the old head plus the component of the new one.
C15_SameHeightSwap ==
    [][SameHeightSwap
        => /\ errCh' = <<>>
           /\ status' = "ok"
           /\ Head3(s') = <<s.BlockNumber, mon'.k, s.ParentHash>>
           /\ Totals(s') = Plus(Minus(Totals(s), Effect(HeadRecord(s).supply)),
                                Effect(getSupply(s, mon'.k, s.BlockNumber).supply))]_vars

\* the records history holds along the parent links from (number, hash) down
\* to height m, lowest first; the empty sequence when a link is missing
RECURSIVE HeldChain(_, _, _, _)
HeldChain(st, hash, number, m) ==
    LET got == getSupply(st, hash, number) IN
    IF ~got.found THEN <<>>
    ELSE IF number = m THEN <<got.supply>>
    ELSE LET below == HeldChain(st, got.supply.ParentHash, number - 1, m)
         IN IF below = <<>> THEN <<>> ELSE Append(below, got.supply)

\* a direct call forwardTo(number, hash) above the head (m, h_m), history
\* holding a parent-linked chain from a block at height m, not the head, whose
\* parent is the canonical block at m-1, up to (number, hash)
DeepReorg ==
    /\ op' = "forwardTo"
    /\ s.BlockNumber >= 1
    /\ mon'.j > s.BlockNumber
    /\ HeadRecord(s).found
    /\ LET chain == HeldChain(s, mon'.k, mon'.j, s.BlockNumber) IN
        /\ chain # <<>>
        /\ chain[1].Hash # s.Hash
        /\ s.BlockNumber - 1 \in DOMAIN s.canonicalChain
        /\ chain[1].ParentHash = s.canonicalChain[s.BlockNumber - 1]

DeepReorgDone ==
    LET chain == HeldChain(s, mon'.k, mon'.j, s.BlockNumber) IN
    /\ errCh' = <<>>
    /\ status' = "ok"
    /\ Head3(s') = Id3(chain[Len(chain)])
    /\ Totals(s') = Plus(Minus(Totals(s), Effect(HeadRecord(s).supply)), SumSeq(chain))

\* C16 as stated: such a call sends no error and ends with (number, hash) as
\* head and every total equal to its previous value minus the component of
\* the old head plus the components of the chain.
C16_DeepReorgAlways == [][DeepReorg => DeepReorgDone]_vars

\* C16 amended: the same when history still holds the canonical block at
\* height m-1.
C16_DeepReorg ==
    [][(/\ DeepReorg
        /\ getSupply(s, s.canonicalChain[s.BlockNumber - 1], s.BlockNumber - 1).found)
        => DeepReorgDone]_vars

\* a direct call moved the head two heights up onto a chain that competes
\* with the old head; the bucket at the height of the old head holds both
C16_Witness ==
    /\ op = "forwardTo" /\ errCh = <<>>
    /\ s.BlockNumber = mon.j /\ s.Hash = mon.k
    /\ s.BlockNumber >= 3
    /\ LET chain == HeldChain(s, s.Hash, s.BlockNumber, s.BlockNumber - 2) IN
        /\ chain # <<>>
        /\ Cardinality(DOMAIN s.HashHistory[IndexOf(s.HashHistory, s.BlockNumber - 2)].Value) = 2
        /\ Totals(s) = ChainSum(s.Hash, first.Hash, MaxChain)

\* C17: the state file SaveState writes, loaded into a fresh State, gives
\* the head and the totals of the saved state (negative totals included) and
\* the saved file name, with an empty history and an empty canonical index;
\* so does the new process that starts right after the save.
C17_CheckpointRoundTrip ==
    [][/\ (op' = "SaveState")
            => LET loaded == LoadState(NewState, stateFile') IN
               /\ ~loaded.err
               /\ Head3(loaded.st) = Head3(s)
               /\ Totals(loaded.st) = Totals(s)
               /\ loaded.lastFile = FileNames[mon'.j]
               /\ loaded.st.HashHistory = <<>>
               /\ loaded.st.canonicalChain = <<>>
       /\ (op' = "LoadState" /\ op = "SaveState")
            => /\ Head3(s') = Head3(s)
               /\ Totals(s') = Totals(s)
               /\ lastParsedFile' = FileNames[mon.j]
               /\ s'.HashHistory = <<>>
               /\ s'.canonicalChain = <<>>]_vars

\* a state with a negative delta total and a head above height 1 was saved
\* under a name that needs escapes, and loaded
C17_Witness ==
    /\ op = "LoadState" /\ mon.phase = "loaded"
    /\ s.TotalDelta < 0 /\ s.BlockNumber >= 2 /\ s.ParentHash # ZeroHash
    /\ lastParsedFile = FileNames[2]
    /\ s.HashHistory = <<>>

\* the three cases of handleEntry that call forwardTo or rewindTo
NeedsReconciliation(st, r) ==
    \/ Dec(r.Number) > st.BlockNumber
    \/ r.Number <= st.BlockNumber
    \/ r.ParentHash # st.Hash

\* the state a load leaves: a head, no history, no canonical index
Loaded(st) ==
    /\ lastParsedFile # <<>>
    /\ Tracking(st)
    /\ st.HashHistory = <<>>
    /\ st.canonicalChain = <<>>

\* C18: in the state a load leaves, a record that needs reconciliation ends
\* as a not-in-history error sent on errCh, the record is not applied, and
\* the process does not crash.
C18_AfterLoadErrorsOnly ==
    [][(op' = "handleEntry" /\ Loaded(s) /\ NeedsReconciliation(s, supply'))
        => /\ status' = "ok"
           /\ NotInHistory'
           /\ s' = s]_vars

\* C19: the first ingest into a fresh State leaves the state Tracking,
\* whatever the record, so that the next call runs the reconciliation and
\* the parent check.
C19_FirstIngestTracks == (op = "handleEntry" /\ steps = 1) => Tracking(s)

\* C20: no handleEntry call takes a Tracking state back to the
\* uninitialised configuration.
C20_NoWayBack == [][(op' = "handleEntry" /\ Tracking(s)) => Tracking(s')]_vars


\* a handleEntry step that ingests again a record the state has applied: the
\* canonical record at a height n >= 1 up to the head, the canonical index and
\* history populated from n-1 to the head, and the block the canonical index
\* holds at the height n-1 is the parent of the record
Reingest ==
    /\ op' = "handleEntry"
    /\ Tracking(s)
    /\ supply'.Number >= 1
    /\ supply'.Number <= s.BlockNumber
    /\ Populated(s, supply'.Number - 1, s.BlockNumber)
    /\ s.canonicalChain[supply'.Number] = supply'.Hash
    /\ getSupply(s, supply'.Hash, supply'.Number).supply = supply'
    /\ s.canonicalChain[supply'.Number - 1] = supply'.ParentHash

\* what the totals lose in the rewind of a re-ingest: the canonical records
\* above the record
RewoundAbove == CanonRange(s, supply'.Number + 1, s.BlockNumber)

\* C21 as stated: a re-ingest succeeds and counts the effect of the record a
\* second time.
C21_ReingestDoubleCounts ==
    [][Reingest
        => /\ errCh' = <<>>
           /\ Head3(s') = Id3(supply')
           /\ Totals(s') = Plus(Minus(Totals(s), RewoundAbove), Effect(supply'))]_vars

\* C21 amended: a re-ingest of a record whose parent is the block the
\* canonical index holds below it succeeds and counts the effect of the
\* record once: the rewind to its parent takes the effect out before the
\* record is applied again, so re-ingesting the head leaves the totals as
\* they were.
C21_ReingestCountsOnce ==
    [][Reingest
        => /\ errCh' = <<>>
           /\ status' = "ok"
           /\ Head3(s') = Id3(supply')
           /\ Totals(s') = Minus(Totals(s), RewoundAbove)
           /\ (Head3(s) = Id3(supply')) => Totals(s') = Totals(s)]_vars

\* a record was applied a second time: the canonical block above the head is
\* its child, which was applied on top of it
C21_Witness ==
    /\ Applied /\ errCh = <<>>
    /\ s.BlockNumber + 1 \in DOMAIN s.canonicalChain
    /\ getSupply(s, s.canonicalChain[s.BlockNumber + 1], s.BlockNumber + 1).found
    /\ getSupply(s, s.canonicalChain[s.BlockNumber + 1], s.BlockNumber + 1).supply.ParentHash = s.Hash
    /\ s.BlockNumber >= 2
    /\ Totals(s) = ChainSum(s.Hash, first.Hash, MaxChain)


(***************************************************************************)
(* The writer and a reader.  handleEntry holds no lock of its own: setHead, *)
(* add, sub, addToHistory and cleanHistory each take the exclusive lock    *)
(* and release it on return, in the reconciliation (the walks of rewindTo  *)
(* and the replay of forwardTo) as in the update of the state, and         *)
(* handleSupplyRequest of the API takes the shared lock, so a request can  *)
(* be served between any two of them.  A handleEntry call is taken one     *)
(* event at a time: a method that held the lock, or a send on errCh.  One  *)
(* request is served in a behaviour.                                       *)
(***************************************************************************)
\* number of handleEntry calls explored next to the reader
MaxShared == 4

\* the event e of the call under way happens: the method runs under the
\* exclusive lock on the State as it is, or the error is sent
happens(e) ==
    /\ s' = performed(s, e)
    /\ errCh' = IF e.kind = "send" THEN Append(errCh, e.arg) ELSE errCh

\* handleEntry(rec, errCh) is called; call is the events it will make on the
\* State it finds (the goroutine is the only writer of the State)
called(rec, call) ==
    /\ op' = "call"
    /\ errCh' = <<>>
    /\ supply' = rec
    /\ first' = IF steps = 0 THEN rec ELSE first
    /\ steps' = steps + 1
    /\ mon' = Monitor(mon, rec)
    /\ proc' = [proc EXCEPT !.before = s,
                            !.events = call.trail.events,
                            !.final = call.status,
                            !.done = 0]
    /\ UNCHANGED <<s, status, stateFile, lastParsedFile>>

BeginEntry(rec) ==
    /\ status = "ok"
    /\ op \in {"NewState", "handleEntry"}
    /\ steps < MaxShared
    /\ called(rec, handleEntryEvents(s, rec))

\* the next locked method of the call returns, or its next error is sent
EntryStep ==
    /\ op = "call"
    /\ proc.done < Len(proc.events)
    /\ happens(proc.events[proc.done + 1])
    /\ proc' = [proc EXCEPT !.done = @ + 1]
    /\ UNCHANGED <<status, supply, op, first, steps, mon, stateFile, lastParsedFile>>

\* handleEntry returns, or panics
EndEntry ==
    /\ op = "call"
    /\ proc.done = Len(proc.events)
    /\ status' = proc.final
    /\ op' = "handleEntry"
    /\ UNCHANGED <<s, errCh, supply, first, steps, mon, stateFile, lastParsedFile, proc>>

\* json.NewEncoder(w).Encode(s): the members of the embedded TotalSupply
Encode(st) ==
    LET doc == Marshal(st, <<>>) IN [f \in DOMAIN doc \ {"file"} |-> doc[f]]

\* what a client reads in the body
Decode(body) == Unmarshal(body @@ [file |-> EncodeString(<<>>)])

\* handleSupplyRequest (src/api.go 13-19): under the shared lock
HandleSupplyRequest ==
    /\ proc.response = NoResponse
    /\ proc' = [proc EXCEPT !.response = Encode(s)]
    /\ UNCHANGED <<s, errCh, status, supply, op, first, steps, mon, stateFile, lastParsedFile>>

NextShared ==
    \/ \E rec \in DirectRecords : BeginEntry(rec)
    \/ EntryStep
    \/ EndEntry
    \/ HandleSupplyRequest

SpecShared == Init /\ [][NextShared]_vars

\* the events of a handleEntry call make together what handleEntry makes
StepsMakeHandleEntry ==
    (op = "handleEntry")
        => LET c == handleEntry(proc.before, supply) IN
           s = c.st /\ errCh = c.errs /\ status = c.status

\* C22: while the feed is a sequential monotone chain, the head and the
\* totals a request reads are those of a prefix of the chain: the head is a
\* record of the chain (or the head of the fresh State) and every total is
\* the sum of the components of the records up to that head.
C22_SnapshotConsistency ==
    (proc.response # NoResponse /\ mon.phase = "A")
        => LET seen == Decode(proc.response) IN
           \E i \in 0..Len(mon.chain) :
               /\ Head3(seen) = IF i = 0 THEN Head3(NewState) ELSE Id3(mon.chain[i])
               /\ Totals(seen) = SumSeq(SubSeq(mon.chain, 1, i))


(***************************************************************************)
(* The log files.  A file name is a sequence of characters; the directory  *)
(* is a set of names, the content of a file a sequence of lines: a record, *)
(* an empty line, or a line json.Unmarshal refuses.                        *)
(***************************************************************************)
\* the characters of the names, in the order of their bytes
CharOrder == <<"-", ".", "1", "2", "3", "j", "k", "s", "t">>

Code(ch) == CHOOSE i \in 1..Len(CharOrder) : CharOrder[i] = ch

\* a < b on strings: bytewise, a proper prefix is smaller
RECURSIVE Less(_, _)
Less(a, b) ==
    IF b = <<>> THEN FALSE
    ELSE IF a = <<>> THEN TRUE
    ELSE IF Head(a) # Head(b) THEN Code(Head(a)) < Code(Head(b))
    ELSE Less(Tail(a), Tail(b))

HasPrefix(str, prefix) ==
    Len(str) >= Len(prefix) /\ SubSeq(str, 1, Len(prefix)) = prefix

HasSuffix(str, suffix) ==
    Len(str) >= Len(suffix) /\ SubSeq(str, Len(str) - Len(suffix) + 1, Len(str)) = suffix

\* filepath.Ext: the suffix that starts at the last dot, empty without a dot
Ext(file) ==
    LET dots == {i \in 1..Len(file) : file[i] = "."} IN
    IF dots = {} THEN <<>>
    ELSE SubSeq(file, CHOOSE i \in dots : \A j \in dots : j <= i, Len(file))

TrimSuffix(str, suffix) ==
    IF HasSuffix(str, suffix) THEN SubSeq(str, 1, Len(str) - Len(suffix)) ELSE str

\* sort.Slice(logFiles, less)
RECURSIVE SortNames(_)
SortNames(names) ==
    IF names = {} THEN <<>>
    ELSE LET least == CHOOSE n \in names : \A m \in names \ {n} : Less(n, m)
         IN <<least>> \o SortNames(names \ {least})

\* findAndSortLogFiles(dir, file), dir given by the names it holds
findAndSortLogFiles(dir, file) ==
    LET fileExtension == Ext(file)
        filename == TrimSuffix(file, fileExtension)
    IN SortNames({f \in dir : HasPrefix(f, filename) /\ HasSuffix(f, fileExtension)})

\* supply.file, the file that grows
OriginalFile == <<"s", ".", "j">>

Rotated1 == <<"s", "-", "1", ".", "j">>

Rotated2 == <<"s", "-", "2", ".", "j">>

Rotated3 == <<"s", "-", "3", ".", "j">>

\* names findAndSortLogFiles leaves out
OtherFiles == {<<"t", ".", "j">>, <<"s", "-", "1", ".", "k">>}

SupplyLine(r) == [kind |-> "supply", supply |-> r]

EmptyLine == [kind |-> "empty"]

BadLine == [kind |-> "bad"]

\* the lines of the files: the chain G0 <- A1 <- .. <- A5 over the rotated
\* files and the growing file, an empty line in the second file, a line that
\* does not decode in the third
Content(name) ==
    IF name = Rotated1
    THEN <<SupplyLine(Blk(0, 10, ZeroHash, 1)), SupplyLine(Blk(1, 11, 10, 2))>>
    ELSE IF name = Rotated2
    THEN <<EmptyLine, SupplyLine(Blk(2, 12, 11, 4))>>
    ELSE IF name = Rotated3
    THEN <<SupplyLine(Blk(3, 13, 12, 8)), BadLine, SupplyLine(Blk(3, 33, 12, 2048))>>
    ELSE IF name = OriginalFile
    THEN <<SupplyLine(Blk(4, 14, 13, 16)), SupplyLine(Blk(5, 15, 14, 32))>>
    ELSE <<SupplyLine(Blk(3, 40, 99, 4096))>>

\* the directories a process may find: the growing file, the other files and
\* the rotated files that were not removed
Directories == {rotated \cup OtherFiles \cup {OriginalFile} :
                    rotated \in SUBSET {Rotated1, Rotated2, Rotated3}}

SaveLastParsedFile(fileName) == [kind |-> "marker", file |-> fileName]


(***************************************************************************)
(* The process (run of src/main.go): the goroutine of readFileStream sends *)
(* lines and markers on linesCh, the consumer goroutine passes them to     *)
(* handleEntry and SaveState, the third goroutine ends the process on an   *)
(* error or a signal, and the main goroutine runs the API server.  A       *)
(* process that has ended is started again, at most MaxRuns processes.     *)
(***************************************************************************)
MaxRuns == 2

\* processLogFile that sends the marker after the growing file as well
atEofMarksAll(p, fileName) ==
    [p EXCEPT !.linesCh = Append(@, SaveLastParsedFile(fileName)),
              !.lines = Append(@, SaveLastParsedFile(fileName)),
              !.file = @ + 1,
              !.line = 1]

\* processLogFile at the end of the file fileName (lines 111-131): wait for
\* more in the growing file, send the marker after any other file
atEof(p, fileName) ==
    IF fileName = OriginalFile
    THEN [p EXCEPT !.reader = "tailing"]
    ELSE [p EXCEPT !.linesCh = Append(@, SaveLastParsedFile(fileName)),
                   !.lines = Append(@, SaveLastParsedFile(fileName)),
                   !.file = @ + 1,
                   !.line = 1]

\* errCh <- err of the reader and its return from processLogFile to the
\* loop over the files; a send on the closed channel panics
readerError(p) ==
    IF p.closed
    THEN [p EXCEPT !.exit = "status 2", !.broken = @ \cup {p.files[p.file]}]
    ELSE [p EXCEPT !.errors = @ + 1,
                   !.sent = @ + 1,
                   !.broken = @ \cup {p.files[p.file]},
                   !.reader = "on",
                   !.file = @ + 1,
                   !.line = 1]

\* what the file system answers to the next call of the reader: os.Open,
\* the read of scanner.Scan, file.Seek
Answers == {"ok", "error"}

\* one step of the goroutine of readFileStream (lines 59-74) and of
\* processLogFile (lines 79-133): up to the next send or skip.  With the
\* answer "error" os.Open fails (lines 80-84), or the scanner stops on an
\* error (lines 106-109), or, at the end of the growing file, Seek fails
\* (lines 116-120)
readerStep(p, skipUntilFile, io) ==
    IF p.file > Len(p.files)
    THEN [p EXCEPT !.reader = "closed"]
    ELSE LET fileName == p.files[p.file] IN
         IF p.skipping
         THEN [p EXCEPT !.skipping = (fileName # skipUntilFile), !.file = @ + 1]
         ELSE IF io = "error"
         THEN readerError(p)
         ELSE IF p.line > Len(Content(fileName))
         THEN atEof(p, fileName)
         ELSE LET ln == Content(fileName)[p.line] IN
              IF ln.kind = "empty"
              THEN [p EXCEPT !.line = @ + 1]
              ELSE IF ln.kind = "bad"
              THEN readerError(p)
              ELSE [p EXCEPT !.linesCh = Append(@, ln),
                             !.lines = Append(@, ln),
                             !.line = @ + 1]

\* readFileStream up to the start of its goroutine (lines 41-57), called by
\* run with the file name LoadState returned
ReadFileStream(dir) ==
    /\ proc.exit = "running"
    /\ proc.reader = "off"
    /\ proc' = [proc EXCEPT !.reader = "on",
                            !.files = findAndSortLogFiles(dir, OriginalFile),
                            !.skipping = (lastParsedFile # <<>>)]
    /\ UNCHANGED <<s, errCh, status, supply, op, first, steps, mon, stateFile, lastParsedFile>>

\* os.ReadDir fails in findAndSortLogFiles (lines 23-26): readFileStream
\* returns the error (lines 44-47) and run ends in log.Fatal (main.go 36-38)
ReadFileStreamFails ==
    /\ proc.exit = "running"
    /\ proc.reader = "off"
    /\ proc' = [proc EXCEPT !.exit = "status 1", !.fatal = TRUE]
    /\ UNCHANGED <<s, errCh, status, supply, op, first, steps, mon, stateFile, lastParsedFile>>

\* the reader at the end of the growing file sleeps, seeks and scans again:
\* it takes a step only when Seek fails
ReaderStep(io) ==
    /\ proc.exit = "running"
    /\ \/ proc.reader = "on"
       \/ proc.reader = "tailing" /\ io = "error"
    /\ proc' = readerStep(proc, lastParsedFile, io)
    /\ UNCHANGED <<s, errCh, status, supply, op, first, steps, mon, stateFile, lastParsedFile>>

\* the record rec leaves linesCh and handleEntry(rec, errCh) is called; call
\* is the events it will make on the State it finds
received(rec, call) ==
    /\ supply' = rec
    /\ proc' = [proc EXCEPT !.linesCh = Tail(@),
                            !.fed = Append(@, rec),
                            !.before = s,
                            !.pc = "handleEntry",
                            !.events = call.trail.events,
                            !.final = call.status,
                            !.done = 0]
    /\ op' = "call"
    /\ errCh' = <<>>
    /\ first' = IF steps = 0 THEN rec ELSE first
    /\ steps' = steps + 1
    /\ mon' = Monitor(mon, rec)
    /\ UNCHANGED <<s, status, stateFile, lastParsedFile>>

\* the consumer goroutine (run, lines 40-48) receives a record and calls
\* handleEntry
ConsumeSupply ==
    /\ proc.exit = "running"
    /\ proc.pc = "idle"
    /\ proc.linesCh # <<>>
    /\ Head(proc.linesCh).kind = "supply"
    /\ received(Head(proc.linesCh).supply, handleEntryEvents(s, Head(proc.linesCh).supply))

\* the event e of the call under way in the process: a method that held the
\* lock has returned, or an error is sent on errCh; a send on the closed
\* channel panics
delivered(e) ==
    IF e.kind = "send" /\ proc.closed
    THEN /\ status' = "panic"
         /\ proc' = [proc EXCEPT !.exit = "status 2"]
         /\ UNCHANGED <<s, errCh>>
    ELSE /\ happens(e)
         /\ status' = status
         /\ proc' = [proc EXCEPT !.done = @ + 1,
                                 !.errors = IF e.kind = "send" THEN @ + 1 ELSE @,
                                 !.sent = IF e.kind = "send" THEN @ + 1 ELSE @]

\* the next event of the handleEntry call of the consumer goroutine
SupplyStep ==
    /\ proc.exit = "running"
    /\ proc.pc = "handleEntry"
    /\ proc.done < Len(proc.events)
    /\ delivered(proc.events[proc.done + 1])
    /\ UNCHANGED <<supply, op, first, steps, mon, stateFile, lastParsedFile>>

\* handleEntry returns to the consumer goroutine, or panics
SupplyReturn ==
    /\ proc.exit = "running"
    /\ proc.pc = "handleEntry"
    /\ proc.done = Len(proc.events)
    /\ status' = proc.final
    /\ proc' = [proc EXCEPT !.pc = "idle",
                            !.exit = IF proc.final = "ok" THEN @ ELSE "status 2"]
    /\ op' = "handleEntry"
    /\ UNCHANGED <<s, errCh, supply, first, steps, mon, stateFile, lastParsedFile>>

\* the consumer goroutine receives a marker and calls SaveState, which
\* marshals the State under the shared lock (state.go 810-831)
ConsumeMarker ==
    /\ proc.exit = "running"
    /\ proc.pc = "idle"
    /\ proc.linesCh # <<>>
    /\ Head(proc.linesCh).kind = "marker"
    /\ proc' = [proc EXCEPT !.linesCh = Tail(@),
                            !.pc = "marshalled",
                            !.doc = SaveState(s, Head(proc.linesCh).file)]
    /\ op' = "marshal"
    /\ UNCHANGED <<s, errCh, status, supply, first, steps, mon, stateFile, lastParsedFile>>

\* os.WriteFile opens the state file with O_TRUNC (state.go 833)
TruncateFile ==
    /\ proc.exit = "running"
    /\ proc.pc = "marshalled"
    /\ stateFile' = EmptyFile
    /\ proc' = [proc EXCEPT !.pc = "truncated"]
    /\ UNCHANGED <<s, errCh, status, supply, op, first, steps, mon, lastParsedFile>>

\* os.WriteFile writes the document and SaveState returns
WriteFile ==
    /\ proc.exit = "running"
    /\ proc.pc = "truncated"
    /\ stateFile' = proc.doc
    /\ proc' = [proc EXCEPT !.pc = "idle"]
    /\ op' = "SaveState"
    /\ UNCHANGED <<s, errCh, status, supply, first, steps, mon, lastParsedFile>>

\* os.WriteFile returns an error, on the open or on the write: log.Fatalf
\* (state.go 834-836)
WriteFileFails ==
    /\ proc.exit = "running"
    /\ proc.pc \in {"marshalled", "truncated"}
    /\ proc' = [proc EXCEPT !.exit = "status 1", !.fatal = TRUE]
    /\ UNCHANGED <<s, errCh, status, supply, op, first, steps, mon, stateFile, lastParsedFile>>

\* case err := <-errCh (lines 56-58): log.Fatal
ExitOnError ==
    /\ proc.exit = "running"
    /\ proc.errors > 0
    /\ proc' = [proc EXCEPT !.exit = "status 1"]
    /\ UNCHANGED <<s, errCh, status, supply, op, first, steps, mon, stateFile, lastParsedFile>>

\* the same case when errCh is closed and empty: the receive gives nil
ExitOnClosed ==
    /\ proc.exit = "running"
    /\ proc.closed /\ proc.errors = 0
    /\ proc' = [proc EXCEPT !.exit = "status 1"]
    /\ UNCHANGED <<s, errCh, status, supply, op, first, steps, mon, stateFile, lastParsedFile>>

\* SIGINT or SIGTERM is delivered to sigs
Signal ==
    /\ proc.exit = "running"
    /\ proc.reader # "off"
    /\ ~proc.signalled
    /\ proc' = [proc EXCEPT !.signal = TRUE, !.signalled = TRUE]
    /\ UNCHANGED <<s, errCh, status, supply, op, first, steps, mon, stateFile, lastParsedFile>>

\* case sig := <-sigs (lines 59-61)
ExitOnSignal ==
    /\ proc.exit = "running"
    /\ proc.signal
    /\ proc' = [proc EXCEPT !.exit = "status 0"]
    /\ UNCHANGED <<s, errCh, status, supply, op, first, steps, mon, stateFile, lastParsedFile>>

\* http.ListenAndServe serves (startAPI does not return)
ApiServes ==
    /\ proc.exit = "running"
    /\ proc.reader # "off"
    /\ proc.api = "starting"
    /\ proc' = [proc EXCEPT !.api = "serving"]
    /\ UNCHANGED <<s, errCh, status, supply, op, first, steps, mon, stateFile, lastParsedFile>>

\* http.ListenAndServe fails: startAPI returns an error, err == nil is false,
\* run returns nil and its deferred close(errCh) runs (lines 33, 66-70)
ApiFails ==
    /\ proc.exit = "running"
    /\ proc.reader # "off"
    /\ proc.api = "starting"
    /\ proc' = [proc EXCEPT !.api = "failed", !.closed = TRUE]
    /\ UNCHANGED <<s, errCh, status, supply, op, first, steps, mon, stateFile, lastParsedFile>>

\* main returns after app.Run returned nil (lines 101-104)
MainReturns ==
    /\ proc.exit = "running"
    /\ proc.api = "failed"
    /\ proc' = [proc EXCEPT !.exit = "status 0"]
    /\ UNCHANGED <<s, errCh, status, supply, op, first, steps, mon, stateFile, lastParsedFile>>

\* the program is started again (run, lines 13-29): with the flag fresh the
\* state file is removed, LoadState fills the new State from the state file
Restart(fresh) ==
    /\ proc.exit # "running"
    /\ proc.run < MaxRuns
    /\ LET file == IF fresh THEN NoFile ELSE stateFile
           loaded == LoadState(NewState, file)
       IN /\ stateFile' = file
          /\ s' = loaded.st
          /\ lastParsedFile' = loaded.lastFile
          /\ proc' = [NewProcess EXCEPT !.run = proc.run + 1, !.start = loaded.st]
    /\ errCh' = <<>>
    /\ status' = "ok"
    /\ supply' = NoSupply
    /\ op' = "LoadState"
    /\ first' = NoSupply
    /\ steps' = 0
    /\ mon' = MonOff

NextProcess ==
    \/ \E dir \in Directories : ReadFileStream(dir)
    \/ ReadFileStreamFails
    \/ \E io \in Answers : ReaderStep(io)
    \/ ConsumeSupply
    \/ SupplyStep
    \/ SupplyReturn
    \/ ConsumeMarker
    \/ TruncateFile
    \/ WriteFile
    \/ WriteFileFails
    \/ ExitOnError
    \/ ExitOnClosed
    \/ Signal
    \/ ExitOnSignal
    \/ ApiServes
    \/ ApiFails
    \/ MainReturns
    \/ \E fresh \in BOOLEAN : Restart(fresh)

SpecProcess == Init /\ [][NextProcess]_vars

\* C23: the process ends with status 0 only after a signal, and with another
\* status only after an error: one sent on errCh, the API server that failed
\* to start, or the error of the directory listing or of the write of the
\* state file that ends in log.Fatal; an API server that failed to start
\* does not end it with status 0.
C23_ProcessExit ==
    /\ (proc.exit = "status 0") => proc.signalled
    /\ (proc.exit \notin {"running", "status 0"})
          => (proc.sent > 0 \/ proc.api = "failed" \/ proc.fatal)
    /\ (proc.api = "failed" /\ ~proc.signalled) => proc.exit # "status 0"


\* the heights of the ordered map h, in its order
KeySeq(h) == [i \in 1..Len(h) |-> h[i].Key]

\* the bucket of the height k in the ordered map h, empty when k is absent
Bucket(h, k) == IF k \in Keys(h) THEN h[IndexOf(h, k)].Value ELSE <<>>

\* C24: addToHistory(r) makes history[r.Number][r.Hash] = r, a record held
\* under the same height and hash is replaced; the other hashes of that
\* height and all other heights keep their records; a height that is present
\* keeps its place in the insertion order and a new height becomes the
\* newest; nothing else of the State changes.
C24_HistoryUpsert ==
    [][(op' = "addToHistory")
        => LET r == supply'
               h == s.HashHistory
               g == s'.HashHistory
           IN /\ getSupply(s', r.Hash, r.Number).found
              /\ getSupply(s', r.Hash, r.Number).supply = r
              /\ DOMAIN Bucket(g, r.Number) = DOMAIN Bucket(h, r.Number) \cup {r.Hash}
              /\ \A x \in DOMAIN Bucket(h, r.Number) \ {r.Hash} :
                    Bucket(g, r.Number)[x] = Bucket(h, r.Number)[x]
              /\ \A k \in Keys(h) \ {r.Number} : Bucket(g, k) = Bucket(h, k)
              /\ KeySeq(g) = IF r.Number \in Keys(h)
                             THEN KeySeq(h)
                             ELSE Append(KeySeq(h), r.Number)
              /\ s' = [s EXCEPT !.HashHistory = g]]_vars

\* a record was replaced by another record of its height and hash, at a
\* height that is neither the oldest nor the newest of the history
C24_Witness ==
    /\ op = "addToHistory"
    /\ supply = HistoryRewrite(supply.Number)
    /\ Len(s.HashHistory) >= 3
    /\ supply.Number # Oldest(s.HashHistory).Key
    /\ supply.Number # Newest(s.HashHistory).Key
    /\ getSupply(s, supply.Hash, supply.Number).supply = supply


(***************************************************************************)
(* add and sub called directly, as TestAdd and TestSub call them, on a     *)
(* fresh State and on the states a short feed builds; at most MaxCalls     *)
(* calls in a behaviour.  mon keeps the totals before the call (j) and the *)
(* number of calls made (k).                                               *)
(***************************************************************************)
MaxCalls == 2

\* number of handleEntry calls ahead of the direct calls of add and sub
MaxTotalsFeed == 2

CallsMade == IF mon.phase = "totals" THEN mon.k ELSE 0

Add(rec) ==
    /\ status = "ok"
    /\ CallsMade < MaxCalls
    /\ s' = add(Ctx(s), rec).st
    /\ op' = "add"
    /\ supply' = rec
    /\ mon' = [phase |-> "totals", chain |-> <<>>,
               j |-> <<s.TotalDelta, s.TotalReward, s.TotalWithdrawals, s.TotalBurn>>,
               k |-> CallsMade + 1]
    /\ UNCHANGED <<errCh, status, first, steps, stateFile, lastParsedFile, proc>>

Sub(rec) ==
    /\ status = "ok"
    /\ CallsMade < MaxCalls
    /\ s' = sub(Ctx(s), rec).st
    /\ op' = "sub"
    /\ supply' = rec
    /\ mon' = [phase |-> "totals", chain |-> <<>>,
               j |-> <<s.TotalDelta, s.TotalReward, s.TotalWithdrawals, s.TotalBurn>>,
               k |-> CallsMade + 1]
    /\ UNCHANGED <<errCh, status, first, steps, stateFile, lastParsedFile, proc>>

NextTotals ==
    \/ \E rec \in DirectRecords :
          op \in {"NewState", "handleEntry"} /\ steps < MaxTotalsFeed /\ HandleEntry(rec)
    \/ \E rec \in DirectRecords : Add(rec)
    \/ \E rec \in DirectRecords : Sub(rec)

SpecTotals == Init /\ [][NextTotals]_vars

\* C25: add(r) increases every total by the component of r and sub(r)
\* decreases it by the same amount, neither changes anything else of the
\* State, and sub(r) right after add(r), or add(r) right after sub(r),
\* restores the totals, negative totals in between included.
C25_AddSubInverse ==
    [][/\ (op' = "add")
            => /\ Totals(s') = Plus(Totals(s), Effect(supply'))
               /\ s' = [s EXCEPT !.TotalDelta = s'.TotalDelta,
                                 !.TotalReward = s'.TotalReward,
                                 !.TotalWithdrawals = s'.TotalWithdrawals,
                                 !.TotalBurn = s'.TotalBurn]
       /\ (op' = "sub")
            => /\ Totals(s') = Minus(Totals(s), Effect(supply'))
               /\ s' = [s EXCEPT !.TotalDelta = s'.TotalDelta,
                                 !.TotalReward = s'.TotalReward,
                                 !.TotalWithdrawals = s'.TotalWithdrawals,
                                 !.TotalBurn = s'.TotalBurn]
       /\ (/\ op \in {"add", "sub"} /\ op' \in {"add", "sub"} /\ op' # op
           /\ supply' = supply)
            => Totals(s') = mon.j]_vars

\* add(r) after sub(r) restored the totals of a State with a head and a
\* history, and the burn total was negative in between
C25_Witness ==
    /\ op = "add" /\ mon.phase = "totals" /\ mon.k = 2
    /\ mon.j[4] < 0
    /\ Totals(s) = Plus(mon.j, Effect(supply))
    /\ Tracking(s) /\ Len(s.HashHistory) = 2
    /\ Totals(s) = ChainSum(s.Hash, first.Hash, MaxChain)


\* the log files of the directories
LogFiles == {Rotated1, Rotated2, Rotated3, OriginalFile}

\* the records in the lines of the file name, in their order
RECURSIVE SuppliesOf(_)
SuppliesOf(lns) ==
    IF lns = <<>> THEN <<>>
    ELSE IF Head(lns).kind = "supply" THEN <<Head(lns).supply>> \o SuppliesOf(Tail(lns))
    ELSE SuppliesOf(Tail(lns))

\* the log file that holds the record r
FileOf(r) == CHOOSE f \in LogFiles : \E i \in 1..Len(Content(f)) : Content(f)[i] = SupplyLine(r)

\* the positions in the sequence q of what was sent on linesCh where the
\* marker of the file f is
MarkersOf(q, f) == {i \in 1..Len(q) : q[i] = SaveLastParsedFile(f)}

\* the state a feed of the records q leaves when it starts in st
RECURSIVE FoldEntries(_, _)
FoldEntries(st, q) ==
    IF q = <<>> THEN st ELSE FoldEntries(handleEntry(st, Head(q)).st, Tail(q))

\* processLogFile was called for the file f and has returned: the reader is
\* past f in its list and did not skip it
Processed(f) ==
    \E i \in 1..Len(proc.files) :
        /\ proc.files[i] = f
        /\ i < proc.file
        /\ lastParsedFile = <<>> \/ \E j \in 1..(i - 1) : proc.files[j] = lastParsedFile

\* the reader has read the file f to its end: processLogFile has returned
\* from it and did not leave it on an error
ReadToEnd(f) == Processed(f) /\ f \notin proc.broken

\* the marker of the file f, when there is one, is on linesCh after all the
\* records of f and before every record of a later file
MarkerInOrder(f) ==
    \A m \in MarkersOf(proc.lines, f) :
        /\ \A j \in 1..Len(SuppliesOf(Content(f))) :
              \E i \in 1..(m - 1) :
                  proc.lines[i] = SupplyLine(SuppliesOf(Content(f))[j])
        /\ \A i \in 1..Len(proc.lines) :
              (proc.lines[i].kind = "supply")
                  => IF Less(f, FileOf(proc.lines[i].supply))
                     THEN i > m
                     ELSE i < m

\* the state file written for a marker holds the name of the file of the
\* marker and the head and totals of the State after the handleEntry calls
\* for exactly the records sent ahead of the marker
CheckpointAtMarker ==
    (op = "SaveState")
        => LET saved == Unmarshal(stateFile)
               m == CHOOSE i \in MarkersOf(proc.lines, saved.File) : TRUE
               after == FoldEntries(proc.start, proc.fed)
           IN /\ MarkersOf(proc.lines, saved.File) # {}
              /\ proc.fed = SuppliesOf(SubSeq(proc.lines, 1, m - 1))
              /\ Head3(saved) = Head3(after)
              /\ Totals(saved) = Totals(after)
              /\ Head3(saved) = Head3(s)
              /\ Totals(saved) = Totals(s)

\* C26 as stated: of every file other than the growing file that
\* processLogFile has gone through there is exactly one marker on linesCh,
\* after all the records of that file and before every record of a later
\* file; there is never a marker of the growing file; and the state file
\* written for the marker of f holds the head and totals of the State after
\* the handleEntry calls for the records sent ahead of the marker.
C26_MarkerForEveryFile ==
    /\ MarkersOf(proc.lines, OriginalFile) = {}
    /\ \A f \in LogFiles \ {OriginalFile} :
          /\ Processed(f) => Cardinality(MarkersOf(proc.lines, f)) = 1
          /\ MarkerInOrder(f)
    /\ CheckpointAtMarker

\* C26 amended: of every file other than the growing file that the reader
\* has read to its end without an error there is exactly one marker on
\* linesCh, and of a file it left on an error or has not gone through there
\* is none; a marker is after all the records of its file and before every
\* record of a later file; there is never a marker of the growing file; and
\* the state file written for the marker of f holds the name f and the head
\* and totals of the State after the handleEntry calls for exactly the
\* records sent ahead of the marker, which include every record of f and no
\* record of a later file.
C26_MarkerOrdering ==
    /\ MarkersOf(proc.lines, OriginalFile) = {}
    /\ \A f \in LogFiles \ {OriginalFile} :
          /\ ReadToEnd(f) => Cardinality(MarkersOf(proc.lines, f)) = 1
          /\ ~ReadToEnd(f) => MarkersOf(proc.lines, f) = {}
          /\ MarkerInOrder(f)
    /\ CheckpointAtMarker

\* the reader left the first rotated file on an error after its first
\* record and sent no marker of it; the state file was written for the
\* second rotated file, after the records sent ahead of its marker, while
\* records of the growing file were waiting on linesCh
C26_Witness ==
    /\ op = "SaveState"
    /\ proc.run = 1
    /\ proc.exit = "running"
    /\ Rotated1 \in proc.broken
    /\ MarkersOf(proc.lines, Rotated1) = {}
    /\ Unmarshal(stateFile).File = Rotated2
    /\ Len(proc.fed) = 2
    /\ \E i \in 1..Len(proc.linesCh) :
          /\ proc.linesCh[i].kind = "supply"
          /\ FileOf(proc.linesCh[i].supply) = OriginalFile


\* the records of the files of the list names, file after file
RECURSIVE RecordsOfFiles(_)
RecordsOfFiles(names) ==
    IF names = <<>> THEN <<>>
    ELSE SuppliesOf(Content(Head(names))) \o RecordsOfFiles(Tail(names))

\* the log files of the process that are sorted after the file f, in order;
\* all of them when f is the empty name
FilesAfter(f) ==
    SortNames({proc.files[i] : i \in {j \in 1..Len(proc.files) :
                                          f = <<>> \/ Less(f, proc.files[j])}})

\* the reader has gone through the files and the consumer through linesCh,
\* and no error was sent
FeedComplete ==
    /\ proc.reader \in {"tailing", "closed"}
    /\ proc.linesCh = <<>>
    /\ proc.pc = "idle"
    /\ proc.sent = 0

\* C27: a process started with the checkpointed file f feeds no record of f
\* or of a file sorted before f, and it feeds the records of every file
\* sorted after f, in the order of the files, each file to its end, whether
\* or not f is still in the directory; without a checkpoint it feeds the
\* records of every log file.
C27_ResumeFromCheckpoint ==
    /\ \A i \in 1..Len(proc.fed) :
          lastParsedFile # <<>> => Less(lastParsedFile, FileOf(proc.fed[i]))
    /\ (proc.reader # "off" /\ FeedComplete)
          => proc.fed = RecordsOfFiles(FilesAfter(lastParsedFile))

\* the same for the processes that find the checkpointed file in the
\* directory
ResumeWhenFilePresent ==
    (lastParsedFile = <<>> \/ \E i \in 1..Len(proc.files) : proc.files[i] = lastParsedFile)
        => C27_ResumeFromCheckpoint


\* C28: a direct call rewindTo(targetHash, numberHint) that sends no error
\* leaves as head the block with the hash targetHash, with numberHint = 0
\* (the target is looked up by hash) and with a numberHint that is not 0.
C28_RewindPostcondition ==
    [][(op' = "rewindTo" /\ status' = "ok" /\ errCh' = <<>>) => s'.Hash = mon'.k]_vars

(***************************************************************************)
(* forwardTo called directly on the states a feed of at most MaxForward    *)
(* records builds.  The feed may start with the genesis record whose hash  *)
(* is common.Hash{}: the State is then still in its initial handling, the  *)
(* next record is applied whatever its height, and history holds heights   *)
(* with a gap between them.                                                *)
(***************************************************************************)
MaxForward == 4

ForwardRecords ==
    ZeroGenesis
        \cup {b \in ChainA : b.Number \in 1..3}
        \cup {Blk(2, 22, 11, 64), Blk(3, 33, 12, 2048)}

ForwardHashes == {b.Hash : b \in ForwardRecords}

ForwardNumbers == {b.Number : b \in ForwardRecords}

NextForward ==
    \/ \E rec \in ForwardRecords :
          op \in {"NewState", "handleEntry"} /\ steps < MaxForward /\ HandleEntry(rec)
    \/ \E hash \in ForwardHashes : \E number \in ForwardNumbers : ForwardTo(number, hash)

SpecForward == Init /\ [][NextForward]_vars

\* the call forwardTo(mon'.j, mon'.k) of this step got past the range check
\* and found the whole parent chain in history, so its replay loop ran
ReplayRan ==
    /\ op' = "forwardTo"
    /\ status' = "ok"
    /\ Len(s.HashHistory) > 0
    /\ Newest(s.HashHistory).Key >= mon'.j
    /\ Oldest(s.HashHistory).Key < mon'.j
    /\ forwardTrace(s, mon'.j, Len(s.HashHistory), mon'.k, <<>>).ok

\* C29: a call forwardTo(number, hash) that returns without sending an error
\* leaves the head at (number, hash); a call whose replay ended with another
\* head number or another head hash sent the ForwardIncomplete error.
C29_ForwardPostcondition ==
    [][/\ (op' = "forwardTo" /\ status' = "ok" /\ errCh' = <<>>)
            => (s'.BlockNumber = mon'.j /\ s'.Hash = mon'.k)
       /\ (ReplayRan /\ (s'.BlockNumber # mon'.j \/ s'.Hash # mon'.k))
            => Sent("ForwardIncomplete")']_vars

\* a call forwardTo(number, hash) sent no error and moved the head from the
\* last record fed onto the block (number, hash) of history
C29_Witness ==
    /\ op = "forwardTo" /\ status = "ok" /\ errCh = <<>>
    /\ s.BlockNumber = mon.j /\ s.Hash = mon.k
    /\ s.Hash # supply.Hash


\* the number of a call forwardTo(mon'.j, mon'.k) is outside the heights
\* that can be forwarded to: at or below the oldest retained height, or
\* above the newest
OutsideForwardRange ==
    /\ op' = "forwardTo"
    /\ Len(s.HashHistory) > 0
    /\ (mon'.j <= Oldest(s.HashHistory).Key \/ mon'.j > Newest(s.HashHistory).Key)

\* C30: forwardTo(number, hash) with number at or below the oldest retained
\* height, or above the newest, sends the not-in-history error and nothing
\* else, and leaves head, totals, canonical index and history as they were.
C30_ForwardRangeCheck ==
    [][OutsideForwardRange
          => (errCh' = <<"ForwardNotInHistory">> /\ status' = "ok" /\ s' = s)]_vars

\* a call forwardTo with the oldest retained height as number, below the
\* head and with a hash history holds at that height, was refused
C30_Witness ==
    /\ op = "forwardTo"
    /\ errCh = <<"ForwardNotInHistory">>
    /\ Len(s.HashHistory) > 1
    /\ mon.j = Oldest(s.HashHistory).Key
    /\ mon.k \in DOMAIN Oldest(s.HashHistory).Value
    /\ s.BlockNumber > mon.j


\* C31: a handleEntry call on a State whose head is (0, common.Hash{}), fresh
\* or not, sends no error and applies the record whatever its number and its
\* parent hash: the record is the head, every total grew by its component,
\* and history holds it.
C31_UninitialisedApplies ==
    [][(op' = "handleEntry" /\ isInitialBlockHandling(s))
          => /\ status' = "ok" /\ errCh' = <<>>
             /\ Head3(s') = Id3(supply')
             /\ Totals(s') = Plus(Totals(s), Effect(supply'))
             /\ Stored(s', supply')]_vars

\* after the zero-hash genesis, which left totals that are not zero, a record
\* of height two or more whose parent is not that genesis was applied
C31_Witness ==
    /\ op = "handleEntry" /\ steps = 2 /\ errCh = <<>>
    /\ first.Hash = ZeroHash /\ first.Number = 0
    /\ supply.Number >= 2 /\ supply.ParentHash # ZeroHash
    /\ Head3(s) = Id3(supply)
    /\ Totals(s) = Plus(Effect(first), Effect(supply))
    /\ Stored(s, supply)


\* the heights of history, in insertion order, are strictly ascending
HistoryAscending ==
    \A i \in 1..(Len(s.HashHistory) - 1) :
        s.HashHistory[i].Key < s.HashHistory[i + 1].Key

\* C32: in every state handleEntry calls reach from a fresh State, the heights
\* of history in insertion order are the consecutive numbers from the lowest
\* retained height to the highest: the first inserted is the minimum, the
\* last inserted the maximum, and the walks from the newest pair to the
\* oldest meet strictly descending heights with no gap.
C32_HistoryExtremes ==
    \A i \in 1..(Len(s.HashHistory) - 1) :
        s.HashHistory[i + 1].Key = s.HashHistory[i].Key + 1


\* C33: every handleEntry call returns: on no reachable State and for no
\* record does the reconciliation need more nested calls of rewindTo and
\* forwardTo, beyond the first, than history has heights, and the walk of
\* rewindTo and the trace of forwardTo end in each of them.
C33_Termination ==
    /\ status # "diverged"
    /\ ~isInitialBlockHandling(s)
          => \A rec \in Records :
                reconcileWithin(Ctx(s), rec, Len(s.HashHistory) + 1).status # "diverged"

\* with two heights in history, a record whose parent is a sibling of the
\* head makes rewindTo walk below the head, its deferred forwardTo run, and
\* the replay call rewindTo again, which is as deep as the calls go
C33_Witness ==
    /\ op = "handleEntry" /\ status = "ok"
    /\ Len(s.HashHistory) = 2
    /\ \E rec \in Records :
          /\ rec.ParentHash # s.Hash
          /\ getSupply(s, rec.ParentHash, s.BlockNumber).found
          /\ reconcileWithin(Ctx(s), rec, 2).status = "diverged"
          /\ reconcileWithin(Ctx(s), rec, 3).status = "ok"


\* the State a handleEntry call leaves when it applies the record: setHead,
\* add, addToHistory and cleanHistory on what the reconciliation left
AppliedOn(st, rec) ==
    IF isInitialBlockHandling(st)
    THEN apply(Ctx(st), rec).st
    ELSE apply(reconcile(Ctx(st), rec), rec).st

\* C34: a handleEntry call that sends an error, its own or one of a rewindTo
\* or forwardTo it makes, does not apply its record.
C34_ErrorsImplyNotApplied ==
    [][(op' = "handleEntry" /\ status' = "ok" /\ errCh' # <<>>)
          => s' # AppliedOn(s, supply')]_vars


\* C35: a record of height 0 fed to a State that is past its initial block
\* handling and has history is rejected with the not-in-history error of
\* forwardTo followed by ParentMismatch (0 - 1 is the largest uint64, above
\* every head), and the State is left as it was.
C35_HeightZeroRejected ==
    [][(/\ op' = "handleEntry"
        /\ supply'.Number = 0
        /\ ~isInitialBlockHandling(s)
        /\ Len(s.HashHistory) > 0)
          => /\ status' = "ok"
             /\ errCh' = <<"ForwardNotInHistory", "ParentMismatch">>
             /\ s' = s]_vars

\* the genesis of the canonical chain was fed again with the head two or
\* more heights above it and still held in history, and was rejected
C35_Witness ==
    /\ op = "handleEntry" /\ steps >= 3
    /\ supply.Number = 0 /\ supply.Hash # ZeroHash
    /\ s.BlockNumber >= 2
    /\ Stored(s, supply)
    /\ 0 \in DOMAIN s.canonicalChain /\ s.canonicalChain[0] = supply.Hash
    /\ errCh = <<"ForwardNotInHistory", "ParentMismatch">>


\* the canonical index of st is parent-linked at height n: when history
\* holds the canonical blocks at n and at n - 1, the parent of the first is
\* the second
LinkedAt(st, n) ==
    (/\ n \in DOMAIN st.canonicalChain
     /\ n - 1 \in DOMAIN st.canonicalChain
     /\ getSupply(st, st.canonicalChain[n], n).found
     /\ getSupply(st, st.canonicalChain[n - 1], n - 1).found)
        => getSupply(st, st.canonicalChain[n], n).supply.ParentHash
              = st.canonicalChain[n - 1]

\* C36: after a handleEntry call that sent no error the canonical index is
\* parent-linked at every height from the one above the lowest applied
\* height up to the head.
C36_CanonicalParentLinked ==
    (op = "handleEntry" /\ status = "ok" /\ errCh = <<>>)
        => \A n \in 1..s.BlockNumber : LinkedAt(s, n)


(***************************************************************************)
(* The RWMutex of the State.  One writer goroutine calls setHead, add,     *)
(* sub, addToHistory and cleanHistory; each takes the exclusive lock,      *)
(* writes its members one after the other and releases the lock on return. *)
(* Up to MaxReaders requests of the API are served at once, each under the *)
(* shared lock.  The lock is kept in mon: j is the number of readers that  *)
(* hold it, k the position of the writer: 0 outside a method, 1 waiting in *)
(* Lock(), 2 + i holding the lock with i members written.  As in           *)
(* sync.RWMutex a writer that waits keeps new readers out.  op is the      *)
(* method the writer is in, supply its argument, proc.before the State the *)
(* method found, proc.response the body of the last request served.        *)
(***************************************************************************)
MaxLockCalls == 2

MaxReaders == 2

LockRecords == {Blk(1, 11, 10, 2), Blk(2, 12, 11, 4), Blk(2, 22, 11, 64)}

LockedMethods == {"setHead", "add", "sub", "addToHistory", "cleanHistory"}

\* the number of assignments the method makes under the lock
Writes(method) == IF method \in {"setHead", "add", "sub"} THEN 4 ELSE 1

\* RLock() returns at once
mayRLockAnytime(m) == TRUE

\* RLock() returns when no writer holds the lock or waits for it
mayRLock(m) == m.k = 0

\* the i-th assignment of the method, in the order of the source
writeMember(st, method, rec, i) ==
    IF method = "setHead"
    THEN IF i = 1 THEN [st EXCEPT !.BlockNumber = rec.Number]
         ELSE IF i = 2 THEN [st EXCEPT !.Hash = rec.Hash]
         ELSE IF i = 3 THEN [st EXCEPT !.ParentHash = rec.ParentHash]
         ELSE [st EXCEPT !.canonicalChain = (rec.Number :> rec.Hash) @@ @]
    ELSE IF method = "add"
    THEN IF i = 1 THEN [st EXCEPT !.TotalDelta = @ + rec.Delta]
         ELSE IF i = 2 THEN [st EXCEPT !.TotalReward = @ + rec.Reward]
         ELSE IF i = 3 THEN [st EXCEPT !.TotalWithdrawals = @ + rec.Withdrawals]
         ELSE [st EXCEPT !.TotalBurn = @ + rec.Burn]
    ELSE IF method = "sub"
    THEN IF i = 1 THEN [st EXCEPT !.TotalDelta = @ - rec.Delta]
         ELSE IF i = 2 THEN [st EXCEPT !.TotalReward = @ - rec.Reward]
         ELSE IF i = 3 THEN [st EXCEPT !.TotalWithdrawals = @ - rec.Withdrawals]
         ELSE [st EXCEPT !.TotalBurn = @ - rec.Burn]
    ELSE IF method = "addToHistory"
    THEN addToHistory(Ctx(st), rec).st
    ELSE cleanHistory(Ctx(st)).st

\* the writer calls a method: s.Lock() is entered
CallLocked(method, rec) ==
    /\ mon.k = 0
    /\ steps < MaxLockCalls
    /\ op' = method
    /\ supply' = rec
    /\ steps' = steps + 1
    /\ mon' = [phase |-> "lock", chain |-> <<>>, j |-> mon.j, k |-> 1]
    /\ proc' = [proc EXCEPT !.before = s]
    /\ UNCHANGED <<s, errCh, status, first, stateFile, lastParsedFile>>

\* s.Lock() returns: no reader holds the lock
LockStep ==
    /\ mon.k = 1
    /\ mon.j = 0
    /\ mon' = [mon EXCEPT !.k = 2]
    /\ UNCHANGED <<s, errCh, status, supply, op, first, steps, stateFile, lastParsedFile, proc>>

\* the next assignment of the method
WriteStep ==
    /\ mon.k >= 2
    /\ mon.k < 2 + Writes(op)
    /\ s' = writeMember(s, op, supply, mon.k - 1)
    /\ mon' = [mon EXCEPT !.k = @ + 1]
    /\ UNCHANGED <<errCh, status, supply, op, first, steps, stateFile, lastParsedFile, proc>>

\* the deferred s.Unlock() and the return of the method
UnlockStep ==
    /\ mon.k = 2 + Writes(op)
    /\ mon' = [mon EXCEPT !.k = 0]
    /\ UNCHANGED <<s, errCh, status, supply, op, first, steps, stateFile, lastParsedFile, proc>>

\* s.RLock() of a request (src/api.go 14)
RLockStep ==
    /\ mon.j < MaxReaders
    /\ mayRLock(mon)
    /\ mon' = [phase |-> "lock", chain |-> <<>>, j |-> mon.j + 1, k |-> mon.k]
    /\ UNCHANGED <<s, errCh, status, supply, op, first, steps, stateFile, lastParsedFile, proc>>

\* json.NewEncoder(w).Encode(s) of a request that holds the shared lock
EncodeStep ==
    /\ mon.j > 0
    /\ proc' = [proc EXCEPT !.response = Encode(s)]
    /\ UNCHANGED <<s, errCh, status, supply, op, first, steps, mon, stateFile, lastParsedFile>>

\* the deferred s.RUnlock() of a request
RUnlockStep ==
    /\ mon.j > 0
    /\ mon' = [mon EXCEPT !.j = @ - 1]
    /\ UNCHANGED <<s, errCh, status, supply, op, first, steps, stateFile, lastParsedFile, proc>>

NextLock ==
    \/ \E method \in LockedMethods : \E rec \in LockRecords : CallLocked(method, rec)
    \/ LockStep
    \/ WriteStep
    \/ UnlockStep
    \/ RLockStep
    \/ EncodeStep
    \/ RUnlockStep

SpecLock == Init /\ [][NextLock]_vars

\* the method as the operators of the model run it in one step
MethodOn(st, method, rec) ==
    IF method = "setHead" THEN setHead(Ctx(st), rec).st
    ELSE IF method = "add" THEN add(Ctx(st), rec).st
    ELSE IF method = "sub" THEN sub(Ctx(st), rec).st
    ELSE IF method = "addToHistory" THEN addToHistory(Ctx(st), rec).st
    ELSE cleanHistory(Ctx(st)).st

\* the assignments of a method, taken one at a time, make the method
WritesMakeMethod ==
    (mon.phase = "lock" /\ mon.k = 2 + Writes(op)) => s = MethodOn(proc.before, op, supply)

\* number, hash and parent hash of the head are those of one record, or of
\* the fresh State
WholeHead(st) ==
    \/ Head3(st) = Head3(NewState)
    \/ \E rec \in LockRecords : Head3(st) = Id3(rec)

\* the four totals went through the same add and sub calls: with the
\* records of the model, whose burn is twice the reward and whose delta is
\* the withdrawals less the reward, the totals keep both relations
WholeTotals(st) ==
    /\ st.TotalBurn = 2 * st.TotalReward
    /\ st.TotalDelta = st.TotalWithdrawals - st.TotalReward

\* C37: a request that holds the shared lock sees, and the body it sends
\* holds, a head whose three members come from one record and totals whose
\* four members went through the same add and sub calls; and while no
\* writer holds the lock or waits for it, a request gets the shared lock
\* whatever the number of requests that hold it.
C37_NoTornReads ==
    /\ mon.j > 0 => (WholeHead(s) /\ WholeTotals(s))
    /\ proc.response # NoResponse
          => (WholeHead(Decode(proc.response)) /\ WholeTotals(Decode(proc.response)))
    /\ (mon.k = 0 /\ mon.j < MaxReaders) => ENABLED RLockStep

\* two requests hold the shared lock at once, the writer waits in Lock() of
\* its second method, and the body last sent shows the head and the totals
\* its first method left
C37_Witness ==
    /\ mon.phase = "lock" /\ mon.j = 2 /\ mon.k = 1
    /\ steps = 2
    /\ proc.response = Encode(s)
    /\ s # NewState

==========================================================================
